---- MODULE Spec2Model ----
(***************************************************************************)
(* block_compression: a model of the GPU batching engine                   *)
(* (src/src/block_compressor.rs), of the CPU encoder entry point and the   *)
(* BC1-5 block kernels (src/src/encode.rs) and of the block decoders       *)
(* (src/src/decode/block.rs).                                              *)
(*                                                                         *)
(* Each subsystem has its own specification (SpecEngine, SpecEncode, ...); *)
(* the variables of the subsystems a specification does not exercise keep  *)
(* their idle values.                                                      *)
(***************************************************************************)
EXTENDS Integers, Sequences, FiniteSets, TLC

VARIABLES
    \* ---- BlockCompressor (block_compressor.rs:119-132) ----
    task,                   \* Vec<Task>
    bc6h_settings,          \* Vec<Bc6HSettings>
    bc7_settings,           \* Vec<Bc7Settings>
    bc6h_settings_buffer,   \* Buffer handle (index into buffers)
    bc7_settings_buffer,    \* Buffer handle (index into buffers)
    buffers,                \* the device's settings buffers, by handle
    alignment,              \* limits.min_storage_buffer_offset_alignment
    next_id,                \* number of add calls so far (names the tasks)
    pass_log,               \* the dispatches the last call recorded into its pass
    engine_panic,           \* "" or the message of the panic that ended the run
    last_call,              \* the last engine call and what it returned
    \* ---- compress_rgba8 (encode.rs:494-543) ----
    enc_pc,                 \* "idle", "running", "returned" or "panic"
    enc_call,               \* the arguments of the call
    blocks_buffer,          \* &mut [u8]: per byte, Untouched or who wrote it
    enc_block,              \* number of loop iterations completed
    enc_panic,              \* "" or the panic message
    \* ---- the block decoders (decode/block.rs) ----
    dec_pc,                 \* "idle", "returned" or "panic"
    dec_call,               \* the decoder called and its arguments
    decompressed_block,     \* &mut [u8] / [f16] / [f32]: the caller's buffer
    dec_fault,              \* "" or the access that panicked
    \* ---- compress_block_bc3_alpha (encode.rs:396-437) ----
    alpha_block,            \* block[48..64]: the sixteen values to encode
    alpha_data,             \* the eight bytes of the encoded block
    \* ---- functions without state (lib.rs, block_compressor.rs) ----
    fn_call,                \* the function called and its arguments
    fn_result               \* what the call returned, or that it panicked

engine_vars == <<task, bc6h_settings, bc7_settings,
                 bc6h_settings_buffer, bc7_settings_buffer, buffers, alignment,
                 next_id, pass_log, engine_panic, last_call>>

encode_vars == <<enc_pc, enc_call, blocks_buffer, enc_block, enc_panic>>

decode_vars == <<dec_pc, dec_call, decompressed_block, dec_fault>>

alpha_vars == <<alpha_block, alpha_data>>

fn_vars == <<fn_call, fn_result>>

vars == <<engine_vars, encode_vars, decode_vars, alpha_vars, fn_vars>>

\* What the engine's calls leave alone.
non_engine_vars == <<encode_vars, decode_vars, alpha_vars, fn_vars>>

\* What the encoder's steps leave alone.
non_encode_vars == <<engine_vars, decode_vars, alpha_vars, fn_vars>>

\* What a block decoder leaves alone.
non_decode_vars == <<engine_vars, encode_vars, alpha_vars, fn_vars>>

\* What a call of a function without state leaves alone.
non_fn_vars == <<engine_vars, encode_vars, decode_vars, alpha_vars>>

(***************************************************************************)
(* Bounds of the model.                                                    *)
(***************************************************************************)
MaxTasks == 3

(***************************************************************************)
(* Integer helpers.                                                        *)
(***************************************************************************)
DivCeil(a, b) == (a + b - 1) \div b

Max(a, b) == IF a >= b THEN a ELSE b

Min(a, b) == IF a <= b THEN a ELSE b

(***************************************************************************)
(* CompressionVariant (block_compressor.rs:21-100).                        *)
(***************************************************************************)
Variants == {"BC1", "BC2", "BC3", "BC4", "BC5", "BC6H", "BC7"}

block_size(variant) ==
    IF variant \in {"BC1", "BC4"} THEN 8 ELSE 16

output_size(variant, width, height) ==
    LET block_width == (width + 3) \div 4
        block_height == (height + 3) \div 4
        block_count == block_width * block_height
    IN  block_count * block_size(variant)

(***************************************************************************)
(* Settings values.  size_of::<Bc6HSettings>() is five u32, and            *)
(* size_of::<Bc7Settings>() nineteen u32 (settings.rs).  A settings value  *)
(* is named by its preset; "zeroed" is the content of a fresh buffer and   *)
(* "out_of_bounds" what a binding past the end of its buffer yields.       *)
(***************************************************************************)
SizeOfBc6HSettings == 20

SizeOfBc7Settings == 76

Bc6hSettingsValues == {"very_fast", "basic"}

Bc7SettingsValues == {"alpha_basic"}

Alignments == {32, 256}

aligned_size(size, align) == DivCeil(size, align) * align

bc6h_aligned_size == aligned_size(SizeOfBc6HSettings, alignment)

bc7_aligned_size == aligned_size(SizeOfBc7Settings, alignment)

(***************************************************************************)
(* Device buffers.  A settings buffer is its byte size and its content,    *)
(* one entry per aligned slot (slot k holds the bytes from k * aligned).   *)
(***************************************************************************)
create_buffer_init(value, size) == [size |-> size, data |-> <<value>>]

create_buffer(size, aligned) ==
    [size |-> size, data |-> [k \in 1..(size \div aligned) |-> "zeroed"]]

\* queue.write_buffer_with(buffer, 0, len): the packed slots replace the
\* first Len(scratch) slots of the buffer.
write_buffer(buf, scratch) ==
    [buf EXCEPT !.data =
        [k \in 1..Max(Len(buf.data), Len(scratch)) |->
            IF k <= Len(scratch) THEN scratch[k] ELSE buf.data[k]]]

\* What a shader reads through a binding of the whole buffer at a dynamic
\* offset: the settings stored there, if the range lies inside the buffer.
read_settings(buf, offset, size, aligned) ==
    IF offset + size <= buf.size /\ (offset \div aligned) + 1 <= Len(buf.data)
    THEN buf.data[(offset \div aligned) + 1]
    ELSE "out_of_bounds"

(***************************************************************************)
(* Inputs of the engine calls.                                             *)
(***************************************************************************)
Keys == {"a", "b"}

EngineVariants == {"BC1", "BC6H", "BC7"}

\* <<width, height>> of a task; <<6, 4>> is not a multiple of four, and a
\* row of a 64 pixel wide task is 256 bytes of 16 byte blocks.
TaskDims == {<<64, 8>>, <<6, 4>>}

NoOffset == -1

NoBuffer == 0

(***************************************************************************)
(* BlockCompressor::new (block_compressor.rs:135-230).                     *)
(***************************************************************************)
InitEngine ==
    /\ alignment \in Alignments
    /\ task = <<>>
    /\ bc6h_settings = <<>>
    /\ bc7_settings = <<>>
    /\ buffers = << create_buffer_init("alpha_very_fast", SizeOfBc7Settings),
                    create_buffer_init("very_fast", SizeOfBc6HSettings) >>
    /\ bc7_settings_buffer = 1
    /\ bc6h_settings_buffer = 2
    /\ next_id = 0
    /\ pass_log = <<>>
    /\ engine_panic = ""
    /\ last_call = [op |-> "new", args |-> <<>>, result |-> "ok"]

\* The encoder before any call.
EncodeIdle ==
    /\ enc_pc = "idle"
    /\ enc_call = <<>>
    /\ blocks_buffer = <<>>
    /\ enc_block = 0
    /\ enc_panic = ""

\* The block decoders, the alpha kernel and the functions without state
\* before any call.
DecodeIdle ==
    /\ dec_pc = "idle"
    /\ dec_call = <<>>
    /\ decompressed_block = <<>>
    /\ dec_fault = ""
    /\ alpha_block = <<>>
    /\ alpha_data = <<>>
    /\ fn_call = <<>>
    /\ fn_result = <<>>

\* An engine on a device with the default limits, never called.
EngineIdle == InitEngine /\ alignment = 256

(***************************************************************************)
(* BlockCompressor::add_task (block_compressor.rs:411-510).                *)
(***************************************************************************)
\* A check of the height alone.
DimsOk_height(width, height) == height % 4 = 0

DimsOk(width, height) == height % 4 = 0 /\ width % 4 = 0

\* The buffer bound at binding 2 of the task's bind group.
bind_settings_buffer(variant) ==
    CASE variant = "BC6H" -> bc6h_settings_buffer
      [] variant = "BC7" -> bc7_settings_buffer
      [] OTHER -> NoBuffer

NewTask(key, width, height, variant, settings_offset, settings) ==
    [ id |-> next_id + 1,
      key |-> key,
      dispatched |-> "Created",
      variant |-> variant,
      width |-> width,
      height |-> height,
      settings_offset |-> settings_offset,
      block_buffer_size |-> output_size(variant, width, height),
      bind_buffer |-> bind_settings_buffer(variant),
      settings |-> settings,
      result |-> "none" ]

\* add_task as a relation on the engine: the assertions, then the push.
add_task(key, width, height, variant, settings_offset, settings) ==
    IF ~DimsOk(width, height)
    THEN /\ engine_panic' = "assertion failed: dimension % 4 == 0"
         /\ task' = task
    ELSE /\ engine_panic' = engine_panic
         /\ task' = Append(task, NewTask(key, width, height, variant,
                                         settings_offset, settings))

\* add_bc1_task .. add_bc5_task (block_compressor.rs:316-369)
AddPlainTask(key, dims, variant) ==
    /\ engine_panic = ""
    /\ next_id < MaxTasks
    /\ variant \notin {"BC6H", "BC7"}
    /\ add_task(key, dims[1], dims[2], variant, NoOffset, "none")
    /\ next_id' = next_id + 1
    /\ last_call' = [op |-> "add_task", args |-> dims,
                     result |-> IF DimsOk(dims[1], dims[2]) THEN "ok" ELSE "panic"]
    /\ UNCHANGED <<bc6h_settings, bc7_settings,
                   bc6h_settings_buffer, bc7_settings_buffer, buffers,
                   alignment>>
    /\ pass_log' = <<>>
    /\ UNCHANGED non_engine_vars

\* add_bc6h_task (block_compressor.rs:371-389)
AddBc6hTask(key, dims, settings) ==
    /\ engine_panic = ""
    /\ next_id < MaxTasks
    /\ LET settings_offset == Len(bc6h_settings) * bc6h_aligned_size
       IN  add_task(key, dims[1], dims[2], "BC6H", settings_offset, settings)
    /\ bc6h_settings' = IF DimsOk(dims[1], dims[2])
                        THEN Append(bc6h_settings, settings)
                        ELSE bc6h_settings
    /\ next_id' = next_id + 1
    /\ last_call' = [op |-> "add_task", args |-> dims,
                     result |-> IF DimsOk(dims[1], dims[2]) THEN "ok" ELSE "panic"]
    /\ UNCHANGED <<bc7_settings,
                   bc6h_settings_buffer, bc7_settings_buffer, buffers,
                   alignment>>
    /\ pass_log' = <<>>
    /\ UNCHANGED non_engine_vars

\* An add_bc7_task that does not queue the settings.
AddBc7Task_unqueued(key, dims, settings) ==
    /\ engine_panic = ""
    /\ next_id < MaxTasks
    /\ LET settings_offset == Len(bc7_settings) * bc7_aligned_size
       IN  add_task(key, dims[1], dims[2], "BC7", settings_offset, settings)
    /\ next_id' = next_id + 1
    /\ last_call' = [op |-> "add_task", args |-> dims,
                     result |-> IF DimsOk(dims[1], dims[2]) THEN "ok" ELSE "panic"]
    /\ UNCHANGED <<bc6h_settings, bc7_settings,
                   bc6h_settings_buffer, bc7_settings_buffer, buffers,
                   alignment>>
    /\ pass_log' = <<>>
    /\ UNCHANGED non_engine_vars

\* add_bc7_task (block_compressor.rs:391-409)
AddBc7Task(key, dims, settings) ==
    /\ engine_panic = ""
    /\ next_id < MaxTasks
    /\ LET settings_offset == Len(bc7_settings) * bc7_aligned_size
       IN  add_task(key, dims[1], dims[2], "BC7", settings_offset, settings)
    /\ bc7_settings' = IF DimsOk(dims[1], dims[2])
                       THEN Append(bc7_settings, settings)
                       ELSE bc7_settings
    /\ next_id' = next_id + 1
    /\ last_call' = [op |-> "add_task", args |-> dims,
                     result |-> IF DimsOk(dims[1], dims[2]) THEN "ok" ELSE "panic"]
    /\ UNCHANGED <<bc6h_settings,
                   bc6h_settings_buffer, bc7_settings_buffer, buffers,
                   alignment>>
    /\ pass_log' = <<>>
    /\ UNCHANGED non_engine_vars

(***************************************************************************)
(* BlockCompressor::upload (block_compressor.rs:512-571).                  *)
(***************************************************************************)
\* A buffer replaced as soon as the packed size reaches its size.
NeedsGrowth_or_equal(total_size, buffer_size) == total_size >= buffer_size

\* The settings buffer is replaced when the packed size exceeds its size.
NeedsGrowth(total_size, buffer_size) == total_size > buffer_size

\* One of the two halves of upload: grow the buffer if needed, pack the
\* settings at aligned strides and write them at offset 0.  (scratch_buffer
\* is cleared before each use, so it carries nothing from call to call.)
upload_settings(bufs, handle, settings, aligned) ==
    IF settings = <<>>
    THEN [buffers |-> bufs, handle |-> handle]
    ELSE LET total_size == aligned * Len(settings)
             grow == NeedsGrowth(total_size, bufs[handle].size)
             bufs1 == IF grow
                      THEN Append(bufs, create_buffer(total_size, aligned))
                      ELSE bufs
             handle1 == IF grow THEN Len(bufs) + 1 ELSE handle
         IN  [buffers |-> [bufs1 EXCEPT ![handle1] = write_buffer(@, settings)],
              handle |-> handle1]

Upload ==
    /\ engine_panic = ""
    /\ LET h == upload_settings(buffers, bc6h_settings_buffer, bc6h_settings,
                                bc6h_aligned_size)
           s == upload_settings(h.buffers, bc7_settings_buffer, bc7_settings,
                                bc7_aligned_size)
       IN  /\ buffers' = s.buffers
           /\ bc6h_settings_buffer' = h.handle
           /\ bc7_settings_buffer' = s.handle
    /\ bc6h_settings' = <<>>
    /\ bc7_settings' = <<>>
    /\ last_call' = [op |-> "upload", args |-> <<>>, result |-> "ok"]
    /\ UNCHANGED <<task, alignment, next_id, engine_panic>>
    /\ pass_log' = <<>>
    /\ UNCHANGED non_engine_vars

(***************************************************************************)
(* BlockCompressor::compress (block_compressor.rs:573-614).                *)
(***************************************************************************)
IsCreated(t) == t.dispatched = "Created"

settings_size(variant) ==
    IF variant = "BC6H" THEN SizeOfBc6HSettings ELSE SizeOfBc7Settings

settings_stride(variant) ==
    IF variant = "BC6H" THEN bc6h_aligned_size ELSE bc7_aligned_size

\* The settings the task's shader invocation sees: binding 2 of the bind
\* group built by add_task, at the dynamic offset given to set_bind_group.
bound_settings(t) ==
    IF t.settings_offset = NoOffset
    THEN "none"
    ELSE read_settings(buffers[t.bind_buffer], t.settings_offset,
                       settings_size(t.variant), settings_stride(t.variant))

\* Workgroups for the whole groups of eight blocks only.
workgroups_floor(t) ==
    <<((t.width + 3) \div 4) \div 8, ((t.height + 3) \div 4) \div 8, 1>>

workgroups(t) ==
    LET block_width == (t.width + 3) \div 4
        block_height == (t.height + 3) \div 4
        workgroup_width == (block_width + 7) \div 8
        workgroup_height == (block_height + 7) \div 8
    IN  <<workgroup_width, workgroup_height, 1>>

\* What one iteration of the loop records into the compute pass.
Dispatch(t) ==
    [ id |-> t.id,
      variant |-> t.variant,
      bind_buffer |-> t.bind_buffer,
      offset |-> t.settings_offset,
      settings |-> bound_settings(t),
      passed |-> t.settings,
      workgroups |-> workgroups(t) ]

\* The block data the dispatch leaves in the task's block buffer: the
\* shader's output is a function of the variant, the bound texture view
\* (fixed by the task), the size and the settings it reads.
block_data(t) == <<t.variant, t.width, t.height, bound_settings(t)>>

\* A compress that records the dispatch and leaves the task as it was.
MarkDispatched_Kept(t) == t

MarkDispatched(t) ==
    [t EXCEPT !.dispatched = "Dispatched", !.result = block_data(t)]

\* A loop that visits every task of the vector.
CreatedTasks_all(tasks) == tasks

\* The tasks the loop visits: the Created ones, in the order of the vector.
CreatedTasks(tasks) == SelectSeq(tasks, IsCreated)

Compress ==
    /\ engine_panic = ""
    /\ IF bc6h_settings # <<>> \/ bc7_settings # <<>>
       THEN /\ engine_panic' = "dispatch called before upload"
            /\ UNCHANGED task /\ pass_log' = <<>>
            /\ last_call' = [op |-> "compress", args |-> <<>>, result |-> "panic"]
       ELSE /\ pass_log' = [k \in 1..Len(CreatedTasks(task)) |->
                               Dispatch(CreatedTasks(task)[k])]
            /\ task' = [k \in 1..Len(task) |->
                           IF IsCreated(task[k])
                           THEN MarkDispatched(task[k])
                           ELSE task[k]]
            /\ last_call' = [op |-> "compress", args |-> <<>>, result |-> "ok"]
            /\ UNCHANGED engine_panic
    /\ UNCHANGED <<bc6h_settings, bc7_settings,
                   bc6h_settings_buffer, bc7_settings_buffer, buffers,
                   alignment, next_id>>
    /\ UNCHANGED non_engine_vars

(***************************************************************************)
(* BlockCompressor::get_texture and get_block_data                         *)
(* (block_compressor.rs:616-722).                                          *)
(***************************************************************************)
HasKey(key) == \E k \in 1..Len(task) : task[k].key = key

\* self.task.iter().position(|task| task.key == key)
position(key) ==
    CHOOSE k \in 1..Len(task) :
        /\ task[k].key = key
        /\ \A j \in 1..(k - 1) : task[j].key # key

\* A removal that drops the last element, whatever the index.
swap_remove_pop(tasks, index) == [k \in 1..(Len(tasks) - 1) |-> tasks[k]]

\* Vec::swap_remove: the last element takes the place of the removed one.
swap_remove(tasks, index) ==
    [k \in 1..(Len(tasks) - 1) |->
        IF k = index THEN tasks[Len(tasks)] ELSE tasks[k]]

GetBlockData(key) ==
    /\ engine_panic = ""
    /\ IF ~HasKey(key)
       THEN /\ last_call' = [op |-> "get_block_data", args |-> <<key>>, result |-> "None"]
            /\ UNCHANGED task
       ELSE /\ last_call' = [op |-> "get_block_data", args |-> <<key>>, result |-> "Some"]
            /\ task' = swap_remove(task, position(key))
    /\ UNCHANGED <<bc6h_settings, bc7_settings,
                   bc6h_settings_buffer, bc7_settings_buffer, buffers,
                   alignment, next_id, engine_panic>>
    /\ pass_log' = <<>>
    /\ UNCHANGED non_engine_vars

bytes_per_row(t) == ((t.width + 3) \div 4) * block_size(t.variant)

GetTexture(name) ==
    /\ engine_panic = ""
    /\ IF ~HasKey(name)
       THEN /\ last_call' = [op |-> "get_texture", args |-> <<name>>, result |-> "None"]
            /\ UNCHANGED <<task, engine_panic>>
       ELSE /\ task' = swap_remove(task, position(name))
            /\ IF bytes_per_row(task[position(name)]) % 256 # 0
               THEN /\ engine_panic' = "bytes per row is not a multiple of 256"
                    /\ last_call' = [op |-> "get_texture",
                                     args |-> <<name>>, result |-> "panic"]
               ELSE /\ engine_panic' = engine_panic
                    /\ last_call' = [op |-> "get_texture",
                                     args |-> <<name>>, result |-> "Some"]
    /\ UNCHANGED <<bc6h_settings, bc7_settings,
                   bc6h_settings_buffer, bc7_settings_buffer, buffers,
                   alignment, next_id>>
    /\ pass_log' = <<>>
    /\ UNCHANGED non_engine_vars

NextEngine ==
    \/ \E key \in Keys, dims \in TaskDims, variant \in EngineVariants :
           AddPlainTask(key, dims, variant)
    \/ \E key \in Keys, dims \in TaskDims, settings \in Bc6hSettingsValues :
           AddBc6hTask(key, dims, settings)
    \/ \E key \in Keys, dims \in TaskDims, settings \in Bc7SettingsValues :
           AddBc7Task(key, dims, settings)
    \/ Upload
    \/ Compress
    \/ \E key \in Keys : GetBlockData(key)
    \/ \E key \in Keys : GetTexture(key)

InitEngineSpec == InitEngine /\ EncodeIdle /\ DecodeIdle

SpecEngine == InitEngineSpec /\ [][NextEngine]_vars

(***************************************************************************)
(* Properties of the engine.                                               *)
(***************************************************************************)
IsSettingsVariant(variant) == variant \in {"BC6H", "BC7"}

CompressReturned == last_call.op = "compress" /\ last_call.result = "ok"

\* C1: every BC6H/BC7 task is compressed with exactly the settings value
\* passed when it was added: the settings each dispatch of a compress reads
\* through its binding are the ones given to the add call of its task.
C1_SettingsAsPassed ==
    \A k \in 1..Len(pass_log) :
        IsSettingsVariant(pass_log[k].variant)
            => pass_log[k].settings = pass_log[k].passed

\* C2: within one compress, the tasks are dispatched in the order they were
\* added (ids number the add calls), whatever add and retrieval calls came
\* before.
C2_DispatchInAddOrder ==
    \A i, j \in 1..Len(pass_log) :
        i < j => pass_log[i].id < pass_log[j].id

block_byte_size(variant) ==
    IF variant \in {"BC1", "BC4"} THEN 8 ELSE 16

blocks_byte_size(variant, width, height) ==
    LET block_width == (width + 3) \div 4
        block_height == (height + 3) \div 4
        block_count == block_width * block_height
    IN  block_count * block_byte_size(variant)

(***************************************************************************)
(* compress_rgba8 and the loops of compress_bc1 .. compress_bc5            *)
(* (encode.rs:494-671).  A byte of blocks_buffer is Untouched or the pair  *)
(* <<block, byte of the block>> of the store that wrote it.                *)
(***************************************************************************)
Untouched == <<>>

\* <<width, height>>: multiples of four, two that are not, and an empty image.
EncodeDims == {<<4, 4>>, <<8, 4>>, <<4, 8>>, <<8, 8>>, <<6, 4>>, <<4, 6>>, <<0, 4>>}

\* Row strides for a width: tightly packed rows, or one pixel of padding.
Strides(width) == {width * 4, width * 4 + 4}

\* The bytes of rgba_data the image occupies.
image_len(width, height, stride) ==
    IF height = 0 \/ width = 0 THEN 0 ELSE (height - 1) * stride + width * 4

\* Lengths of rgba_data: the image, or one byte short of it.
RgbaLens(width, height, stride) ==
    {image_len(width, height, stride)} \cup
    {n \in {image_len(width, height, stride) - 1} : n >= 0}

\* Lengths of blocks_buffer around the sizes of BC1 and of the variant.
BufferLens(variant, width, height) ==
    LET bc1 == blocks_byte_size("BC1", width, height)
        own == blocks_byte_size(variant, width, height)
    IN  {n \in {0, bc1 - 1, bc1, own - 1, own, own + 3} : n >= 0}

SizeDiagnostic == "blocks_buffer size is too small to hold compressed blocks"

\* let required_size = CompressionVariant::BC1.blocks_byte_size(width, height);
required_size(variation, width, height) ==
    blocks_byte_size("BC1", width, height)

\* The number of u32 words a block of the variant stores.
data_len(variant) == IF variant \in {"BC1", "BC4"} THEN 2 ELSE 4

\* The last channel of a pixel the loads of the variant read.
last_channel(variant) ==
    CASE variant = "BC4" -> 0
      [] variant = "BC5" -> 1
      [] OTHER -> 3

\* The largest index of rgba_data the loads of block (xx, yy) read.
load_block_max(variant, xx, yy, stride) ==
    (yy * 4 + 3) * stride + (xx * 4 + 3) * 4 + last_channel(variant)

\* store_data: let offset = (yy * block_width + xx) * (data.len() * 4);
\* A store that places every row of blocks at the start of the buffer.
store_offset_row(block_width, xx, yy, len) == xx * (len * 4)

store_offset(block_width, xx, yy, len) ==
    (yy * block_width + xx) * (len * 4)

\* The bytes store_data writes before it returns or an index panics.
stored_bytes(buffer_len, offset, len) ==
    Min(len * 4, Max(0, buffer_len - offset))

store_data(buffer, offset, count, block) ==
    [k \in 1..Len(buffer) |->
        IF offset < k /\ k <= offset + count
        THEN <<block, k - 1 - offset>>
        ELSE buffer[k]]

enc_block_width == (enc_call.width + 3) \div 4

enc_block_height == (enc_call.height + 3) \div 4

CompressRgba8(variation, dims, stride, rgba_len, buffer_len) ==
    /\ enc_pc = "idle"
    /\ enc_call' = [variation |-> variation, width |-> dims[1],
                    height |-> dims[2], stride |-> stride,
                    rgba_len |-> rgba_len, buffer_len |-> buffer_len]
    /\ blocks_buffer' = [k \in 1..buffer_len |-> Untouched]
    /\ enc_block' = 0
    /\ IF ~DimsOk(dims[1], dims[2])
       THEN enc_pc' = "panic" /\ enc_panic' = "assertion failed: dimension % 4 == 0"
       ELSE IF ~(buffer_len >= required_size(variation, dims[1], dims[2]))
       THEN enc_pc' = "panic" /\ enc_panic' = SizeDiagnostic
       ELSE IF variation \in {"BC6H", "BC7"}
       THEN enc_pc' = "panic" /\ enc_panic' = "not implemented"
       ELSE IF ((dims[1] + 3) \div 4) * ((dims[2] + 3) \div 4) = 0
       THEN enc_pc' = "returned" /\ enc_panic' = ""
       ELSE enc_pc' = "running" /\ enc_panic' = ""
    /\ UNCHANGED non_encode_vars

\* One iteration of the loops of compress_bc1 .. compress_bc5: the loads of
\* the block, its kernel, and store_data; the return after the last one.
CompressBlock ==
    /\ enc_pc = "running"
    /\ LET xx == enc_block % enc_block_width
           yy == enc_block \div enc_block_width
           len == data_len(enc_call.variation)
           offset == store_offset(enc_block_width, xx, yy, len)
           count == stored_bytes(enc_call.buffer_len, offset, len)
       IN  IF load_block_max(enc_call.variation, xx, yy, enc_call.stride)
                  >= enc_call.rgba_len
           THEN /\ enc_pc' = "panic"
                /\ enc_panic' = "index out of bounds: rgba_data"
                /\ UNCHANGED <<blocks_buffer, enc_block>>
           ELSE /\ blocks_buffer' = store_data(blocks_buffer, offset, count, enc_block)
                /\ IF count < len * 4
                   THEN /\ enc_pc' = "panic"
                        /\ enc_panic' = "index out of bounds: blocks_buffer"
                        /\ UNCHANGED enc_block
                   ELSE /\ enc_block' = enc_block + 1
                        /\ enc_panic' = ""
                        /\ enc_pc' = IF enc_block + 1 = enc_block_width * enc_block_height
                                     THEN "returned"
                                     ELSE "running"
    /\ UNCHANGED enc_call
    /\ UNCHANGED non_encode_vars

EncodeVariants == Variants

NextEncode ==
    \/ \E variation \in EncodeVariants, dims \in EncodeDims :
         \E stride \in Strides(dims[1]) :
           \E rgba_len \in RgbaLens(dims[1], dims[2], stride),
              buffer_len \in BufferLens(variation, dims[1], dims[2]) :
               CompressRgba8(variation, dims, stride, rgba_len, buffer_len)
    \/ CompressBlock

InitEncode == EngineIdle /\ EncodeIdle /\ DecodeIdle

SpecEncode == InitEncode /\ [][NextEncode]_vars

(***************************************************************************)
(* Properties of compress_rgba8.                                           *)
(***************************************************************************)
EncodeCalled == enc_pc # "idle"

\* V.blocks_byte_size(width, height) of the call.
EncodedSize ==
    blocks_byte_size(enc_call.variation, enc_call.width, enc_call.height)

IsMultipleOf4(n) == n % 4 = 0

NothingWritten(buffer) == \A k \in 1..Len(buffer) : buffer[k] = Untouched

\* C4: for a variant compress_rgba8 accepts and a width and height that are
\* multiples of 4, the call never modifies a byte at or beyond
\* V.blocks_byte_size(width, height), and when it returns every byte below
\* that index has been written, byte k by the store of block k / block size.
C4_EncodedSize ==
    (EncodeCalled /\ IsMultipleOf4(enc_call.width) /\ IsMultipleOf4(enc_call.height))
    => /\ \A k \in 1..Len(blocks_buffer) :
              k > EncodedSize => blocks_buffer[k] = Untouched
       /\ enc_pc = "returned" =>
              /\ EncodedSize <= Len(blocks_buffer)
              /\ \A k \in 1..EncodedSize :
                     blocks_buffer[k] =
                         << (k - 1) \div block_byte_size(enc_call.variation),
                            (k - 1) % block_byte_size(enc_call.variation) >>

C4_Witness ==
    /\ enc_pc = "returned"
    /\ enc_call.variation = "BC3"
    /\ enc_call.width = 8 /\ enc_call.height = 8
    /\ Len(blocks_buffer) > EncodedSize

\* C5: for every variant, whenever blocks_buffer.len() is less than
\* variation.blocks_byte_size(width, height), compress_rgba8 panics with the
\* buffer-size diagnostic before any block is written.
C5_TooSmallIsFatal ==
    (/\ EncodeCalled
     /\ IsMultipleOf4(enc_call.width) /\ IsMultipleOf4(enc_call.height)
     /\ enc_call.buffer_len < EncodedSize)
    => /\ enc_pc = "panic"
       /\ enc_panic = SizeDiagnostic
       /\ NothingWritten(blocks_buffer)

(***************************************************************************)
(* The two entry points that take a width and a height: a run calls the    *)
(* engine or the CPU encoder.                                              *)
(***************************************************************************)
NextEntry ==
    \/ enc_pc = "idle" /\ NextEngine
    \/ last_call.op = "new" /\ NextEncode

SpecEntry == InitEngineSpec /\ [][NextEntry]_vars

\* C6: adding a GPU task with a width or height that is not a multiple of 4
\* panics and leaves the task queue and the pending settings as they were;
\* calling compress_rgba8 with such a width or height panics and leaves
\* every byte of blocks_buffer unwritten.
C6_DimensionsChecked ==
    [][ /\ (/\ next_id' # next_id
            /\ ~(IsMultipleOf4(last_call'.args[1]) /\ IsMultipleOf4(last_call'.args[2])))
           => /\ engine_panic' # ""
              /\ task' = task
              /\ bc6h_settings' = bc6h_settings
              /\ bc7_settings' = bc7_settings
        /\ (/\ enc_pc' # "idle"
            /\ ~(IsMultipleOf4(enc_call'.width) /\ IsMultipleOf4(enc_call'.height)))
           => /\ enc_pc' = "panic"
              /\ NothingWritten(blocks_buffer')
      ]_vars

C6_Witness ==
    /\ engine_panic = "assertion failed: dimension % 4 == 0"
    /\ Len(task) >= 1
    /\ Len(bc6h_settings) >= 1

(***************************************************************************)
(* The block decoders (decode/block.rs).  A decoder is modelled by the     *)
(* accesses it makes, in program order:                                    *)
(*   <<"read", lo, hi>>      compressed_block[lo..hi]                      *)
(*   <<"table", len, index>> an array or table of len entries at index     *)
(*   <<"slice", start, end>> decompressed_block[start..end]                *)
(*   <<"write", offset, v>>  decompressed_block[offset] = v                *)
(* run executes them against the caller's buffer and stops at the first    *)
(* one that is out of range, as the bounds check of the access does.       *)
(***************************************************************************)
Unwritten == -1

Pow2(n) == 2 ^ n

RECURSIVE Flatten(_)
Flatten(seqs) == IF seqs = <<>> THEN <<>> ELSE Head(seqs) \o Flatten(Tail(seqs))

\* The sixteen pixels of a tile in the order of the loops
\* for i in 0..4 { for j in 0..4 { .. } }.
ForEachPixel(body) == Flatten([p \in 1..16 |-> body[(p - 1) \div 4, (p - 1) % 4]])

\* The offsets of the 4x4 tile in a buffer of the given pitch.
InTile(offset, pitch, row_len) ==
    offset \div pitch < 4 /\ offset % pitch < row_len

\* One access against the caller's buffer: a fault of the access's kind when
\* it is out of range, the write taking effect otherwise.
step(op, st, env) ==
    LET kind == op[1]
        buf == st.out
        ok == CASE kind = "read" -> op[2] <= op[3] /\ op[3] <= env.in_len
                [] kind = "table" -> 0 <= op[3] /\ op[3] < op[2]
                [] kind = "slice" -> op[2] <= op[3] /\ op[3] <= Len(buf)
                [] kind = "write" -> /\ 0 <= op[2] /\ op[2] < Len(buf)
                                     /\ InTile(op[2], env.pitch, env.row_len)
    IN  IF ~ok
        THEN [fault |-> kind, out |-> buf]
        ELSE [fault |-> "",
              out |-> IF kind = "write" THEN [buf EXCEPT ![op[2] + 1] = op[3]] ELSE buf]

\* The accesses lo..hi in order, stopping at the first fault.
RECURSIVE run_range(_, _, _, _, _)
run_range(ops, lo, hi, st, env) ==
    IF st.fault # "" \/ lo > hi
    THEN st
    ELSE IF lo = hi
    THEN step(ops[lo], st, env)
    ELSE LET mid == (lo + hi) \div 2
         IN  run_range(ops, mid + 1, hi, run_range(ops, lo, mid, st, env), env)

run(ops, k, buf, env) ==
    run_range(ops, k, Len(ops), [fault |-> "", out |-> buf], env)

\* seq[index] of the source, its range checked by the access that goes
\* with it.
at(seq, index) == IF 0 <= index /\ index < Len(seq) THEN seq[index + 1] ELSE 0

four_colors_on_equal(OPAQUE_MODE, c0, c1) == c0 >= c1 \/ OPAQUE_MODE

\* if c0 > c1 || OPAQUE_MODE
four_colors(OPAQUE_MODE, c0, c1) == c0 > c1 \/ OPAQUE_MODE

\* The four reference colours, each as the bytes of color.to_le_bytes():
\* red, green, blue, alpha.
ref_colors(OPAQUE_MODE, c0, c1) ==
    LET r0 == (c0 \div 2048) % 32
        g0 == (c0 \div 32) % 64
        b0 == c0 % 32
        r1 == (c1 \div 2048) % 32
        g1 == (c1 \div 32) % 64
        b1 == c1 % 32
        color0 == << (r0 * 527 + 23) \div 64, (g0 * 259 + 33) \div 64,
                     (b0 * 527 + 23) \div 64, 255 >>
        color1 == << (r1 * 527 + 23) \div 64, (g1 * 259 + 33) \div 64,
                     (b1 * 527 + 23) \div 64, 255 >>
    IN  IF four_colors(OPAQUE_MODE, c0, c1)
        THEN << color0, color1,
                << ((2 * r0 + r1) * 351 + 61) \div 128,
                   ((2 * g0 + g1) * 2763 + 1039) \div 2048,
                   ((2 * b0 + b1) * 351 + 61) \div 128, 255 >>,
                << ((r0 + r1 * 2) * 351 + 61) \div 128,
                   ((g0 + g1 * 2) * 2763 + 1039) \div 2048,
                   ((b0 + b1 * 2) * 351 + 61) \div 128, 255 >> >>
        ELSE << color0, color1,
                << ((r0 + r1) * 1053 + 125) \div 256,
                   ((g0 + g1) * 4145 + 1019) \div 2048,
                   ((b0 + b1) * 1053 + 125) \div 256, 255 >>,
                << 0, 0, 0, 0 >> >>

\* decode_color_block on compressed_block[base..]: pixel p takes bits 2p and
\* 2p+1 of the little-endian u32 of bytes 4..8.
decode_color_block(OPAQUE_MODE, block, base, pitch) ==
    LET c0 == at(block, base) + 256 * at(block, base + 1)
        c1 == at(block, base + 2) + 256 * at(block, base + 3)
        colors == ref_colors(OPAQUE_MODE, c0, c1)
        pixel[i \in 0..3, j \in 0..3] ==
            LET p == i * 4 + j
                idx == (at(block, base + 4 + p \div 4) \div Pow2(2 * (p % 4))) % 4
                offset == i * pitch + j * 4
            IN  << <<"table", 4, idx>>, <<"slice", offset, offset + 4>> >>
                \o [n \in 1..4 |-> <<"write", offset + n - 1, colors[idx + 1][n]>>]
    IN  << <<"read", base, base + 8>> >> \o ForEachPixel(pixel)

decode_sharp_alpha_block(block, pitch) ==
    LET pixel[i \in 0..3, j \in 0..3] ==
            LET byte_index == i * 2 + (j \div 2)
                shift == (j % 2) * 4
                alpha_value == (at(block, byte_index) \div Pow2(shift)) % 16
            IN  << <<"read", byte_index, byte_index + 1>>,
                   <<"write", i * pitch + j * 4 + 3, alpha_value * 17>> >>
    IN  ForEachPixel(pixel)

smooth_alpha_palette_sixths(a0, a1) ==
    IF a0 > a1
    THEN << a0, a1,
            (5 * a0 + a1) \div 7, (4 * a0 + 2 * a1) \div 7,
            (3 * a0 + 3 * a1) \div 7, (2 * a0 + 4 * a1) \div 7,
            (a0 + 5 * a1) \div 7, (6 * a1) \div 7 >>
    ELSE << a0, a1,
            (4 * a0 + a1) \div 5, (3 * a0 + 2 * a1) \div 5,
            (2 * a0 + 3 * a1) \div 5, (a0 + 4 * a1) \div 5,
            0, 255 >>

smooth_alpha_palette_on_equal(a0, a1) ==
    IF a0 >= a1
    THEN << a0, a1,
            (6 * a0 + a1) \div 7, (5 * a0 + 2 * a1) \div 7,
            (4 * a0 + 3 * a1) \div 7, (3 * a0 + 4 * a1) \div 7,
            (2 * a0 + 5 * a1) \div 7, (a0 + 6 * a1) \div 7 >>
    ELSE << a0, a1,
            (4 * a0 + a1) \div 5, (3 * a0 + 2 * a1) \div 5,
            (2 * a0 + 3 * a1) \div 5, (a0 + 4 * a1) \div 5,
            0, 255 >>

\* The eight entries of alpha[] for the two stored endpoints.
smooth_alpha_palette(a0, a1) ==
    IF a0 > a1
    THEN << a0, a1,
            (6 * a0 + a1) \div 7, (5 * a0 + 2 * a1) \div 7,
            (4 * a0 + 3 * a1) \div 7, (3 * a0 + 4 * a1) \div 7,
            (2 * a0 + 5 * a1) \div 7, (a0 + 6 * a1) \div 7 >>
    ELSE << a0, a1,
            (4 * a0 + a1) \div 5, (3 * a0 + 2 * a1) \div 5,
            (2 * a0 + 3 * a1) \div 5, (a0 + 4 * a1) \div 5,
            0, 255 >>

\* decode_smooth_alpha_block on compressed_block[base..] and
\* decompressed_block[out..]: pixel p takes bits 16+3p .. 16+3p+2 of the
\* little-endian u64 of the eight bytes.
decode_smooth_alpha_block(PIXEL_SIZE, block, base, out, pitch) ==
    LET alpha == smooth_alpha_palette(at(block, base), at(block, base + 1))
        pixel[i \in 0..3, j \in 0..3] ==
            LET q == 16 + 3 * (i * 4 + j)
                lo == at(block, base + q \div 8)
                hi == IF q \div 8 + 1 <= 7 THEN at(block, base + q \div 8 + 1) ELSE 0
                index == ((lo + 256 * hi) \div Pow2(q % 8)) % 8
            IN  << <<"table", 8, index>>,
                   <<"write", out + i * pitch + j * PIXEL_SIZE, alpha[index + 1]>> >>
    IN  << <<"read", base, base + 8>> >> \o ForEachPixel(pixel)

decode_block_bc1(block, pitch) == decode_color_block(FALSE, block, 0, pitch)

decode_block_bc2(block, pitch) ==
    << <<"read", 8, 8>> >> \o decode_color_block(TRUE, block, 8, pitch)
    \o decode_sharp_alpha_block(block, pitch)

decode_block_bc3(block, pitch) ==
    << <<"read", 8, 8>> >> \o decode_color_block(TRUE, block, 8, pitch)
    \o << <<"slice", 3, 3>> >> \o decode_smooth_alpha_block(4, block, 0, 3, pitch)

decode_block_bc4(block, pitch) == decode_smooth_alpha_block(1, block, 0, 0, pitch)

decode_block_bc5(block, pitch) ==
    decode_smooth_alpha_block(2, block, 0, 0, pitch)
    \o << <<"read", 8, 8>>, <<"slice", 1, 1>> >>
    \o decode_smooth_alpha_block(2, block, 8, 1, pitch)

(***************************************************************************)
(* BitStream: the 128 bits of a block as two 64-bit words, each kept as    *)
(* its bits from bit 0 upward.                                             *)
(***************************************************************************)
BitStream_new(data) ==
    [ low  |-> [k \in 1..64 |->
                  (at(data, (k - 1) \div 8) \div Pow2((k - 1) % 8)) % 2],
      high |-> [k \in 1..64 |->
                  (at(data, 8 + (k - 1) \div 8) \div Pow2((k - 1) % 8)) % 2] ]

RECURSIVE bits_value(_)
bits_value(bits) ==
    IF bits = <<>> THEN 0 ELSE Head(bits) + 2 * bits_value(Tail(bits))

\* A read_bits that shifts low and high without moving bits of high into
\* low.
read_bits_u32_unlinked(bstream, num_bits) ==
    [ bits    |-> SubSeq(bstream.low, 1, num_bits),
      bstream |-> [ low  |-> SubSeq(bstream.low, num_bits + 1, 64)
                             \o [k \in 1..num_bits |-> 0],
                    high |-> SubSeq(bstream.high, num_bits + 1, 64)
                             \o [k \in 1..num_bits |-> 0] ] ]

\* read_bits with the returned u32 as its bits, bit 0 first:
\* bits = low & mask; low >>= n; low |= (high & mask) << (64 - n);
\* high >>= n.
read_bits_u32(bstream, num_bits) ==
    [ bits    |-> SubSeq(bstream.low, 1, num_bits),
      bstream |-> [ low  |-> SubSeq(bstream.low, num_bits + 1, 64)
                             \o SubSeq(bstream.high, 1, num_bits),
                    high |-> SubSeq(bstream.high, num_bits + 1, 64)
                             \o [k \in 1..num_bits |-> 0] ] ]

read_bits(bstream, num_bits) ==
    [ bits    |-> bits_value(read_bits_u32(bstream, num_bits).bits),
      bstream |-> read_bits_u32(bstream, num_bits).bstream ]

RECURSIVE reverse_bits(_, _)
reverse_bits(bits, num_bits) ==
    IF num_bits = 0
    THEN 0
    ELSE (bits % 2) * Pow2(num_bits - 1) + reverse_bits(bits \div 2, num_bits - 1)

read_bits_reversed(bstream, num_bits) ==
    LET rd == read_bits(bstream, num_bits)
    IN  [bits |-> reverse_bits(rd.bits, num_bits), bstream |-> rd.bstream]

\* a | b on non-negative values
RECURSIVE BitOr(_, _)
BitOr(a, b) ==
    IF a = 0 THEN b
    ELSE IF b = 0 THEN a
    ELSE (IF a % 2 = 1 \/ b % 2 = 1 THEN 1 ELSE 0) + 2 * BitOr(a \div 2, b \div 2)

interpolate(a, b, weights, index) ==
    (a * (64 - at(weights, index)) + b * at(weights, index) + 32) \div 64

\* (val << (32 - bits)) >> (32 - bits) on i32: the low bits of val, the
\* highest of them taken as the sign.
extend_sign(val, bits) ==
    LET low == val % Pow2(bits)
    IN  IF low >= Pow2(bits - 1) THEN low - Pow2(bits) ELSE low

transform_inverse(val, a0, bits, is_signed) ==
    LET transformed == (val + a0) % Pow2(bits)
    IN  IF is_signed THEN extend_sign(transformed, bits) ELSE transformed

unquantize(val, bits, is_signed) ==
    IF ~is_signed
    THEN IF bits >= 15 THEN val
         ELSE IF val = 0 THEN 0
         ELSE IF val = Pow2(bits) - 1 THEN 65535
         ELSE (val * 65536 + 32768) \div Pow2(bits)
    ELSE IF bits >= 16 THEN val
         ELSE LET s == val < 0
                  v == IF s THEN -val ELSE val
                  unq == IF v = 0 THEN 0
                         ELSE IF v >= Pow2(bits - 1) - 1 THEN 32767
                         ELSE (v * 32768 + 16384) \div Pow2(bits - 1)
              IN  IF s THEN -unq ELSE unq

\* The bits of the resulting f16, as u16.
finish_unquantize(val, is_signed) ==
    IF ~is_signed
    THEN ((val * 31) \div 64) % 65536
    ELSE LET scaled == IF val < 0 THEN -(((-val) * 31) \div 32) ELSE (val * 31) \div 32
         IN  IF scaled < 0 THEN BitOr(32768, -scaled) % 65536 ELSE scaled % 65536

\* PARTITION_SETS of decode_block_bc6h: 32 shapes of two regions; 128 marks a fix-up index.
bc6h_PARTITION_SETS ==
    <<
      << <<128, 0, 1, 1>>, <<0, 0, 1, 1>>, <<0, 0, 1, 1>>, <<0, 0, 1, 129>> >>,
      << <<128, 0, 0, 1>>, <<0, 0, 0, 1>>, <<0, 0, 0, 1>>, <<0, 0, 0, 129>> >>,
      << <<128, 1, 1, 1>>, <<0, 1, 1, 1>>, <<0, 1, 1, 1>>, <<0, 1, 1, 129>> >>,
      << <<128, 0, 0, 1>>, <<0, 0, 1, 1>>, <<0, 0, 1, 1>>, <<0, 1, 1, 129>> >>,
      << <<128, 0, 0, 0>>, <<0, 0, 0, 1>>, <<0, 0, 0, 1>>, <<0, 0, 1, 129>> >>,
      << <<128, 0, 1, 1>>, <<0, 1, 1, 1>>, <<0, 1, 1, 1>>, <<1, 1, 1, 129>> >>,
      << <<128, 0, 0, 1>>, <<0, 0, 1, 1>>, <<0, 1, 1, 1>>, <<1, 1, 1, 129>> >>,
      << <<128, 0, 0, 0>>, <<0, 0, 0, 1>>, <<0, 0, 1, 1>>, <<0, 1, 1, 129>> >>,
      << <<128, 0, 0, 0>>, <<0, 0, 0, 0>>, <<0, 0, 0, 1>>, <<0, 0, 1, 129>> >>,
      << <<128, 0, 1, 1>>, <<0, 1, 1, 1>>, <<1, 1, 1, 1>>, <<1, 1, 1, 129>> >>,
      << <<128, 0, 0, 0>>, <<0, 0, 0, 1>>, <<0, 1, 1, 1>>, <<1, 1, 1, 129>> >>,
      << <<128, 0, 0, 0>>, <<0, 0, 0, 0>>, <<0, 0, 0, 1>>, <<0, 1, 1, 129>> >>,
      << <<128, 0, 0, 1>>, <<0, 1, 1, 1>>, <<1, 1, 1, 1>>, <<1, 1, 1, 129>> >>,
      << <<128, 0, 0, 0>>, <<0, 0, 0, 0>>, <<1, 1, 1, 1>>, <<1, 1, 1, 129>> >>,
      << <<128, 0, 0, 0>>, <<1, 1, 1, 1>>, <<1, 1, 1, 1>>, <<1, 1, 1, 129>> >>,
      << <<128, 0, 0, 0>>, <<0, 0, 0, 0>>, <<0, 0, 0, 0>>, <<1, 1, 1, 129>> >>,
      << <<128, 0, 0, 0>>, <<1, 0, 0, 0>>, <<1, 1, 1, 0>>, <<1, 1, 1, 129>> >>,
      << <<128, 1, 129, 1>>, <<0, 0, 0, 1>>, <<0, 0, 0, 0>>, <<0, 0, 0, 0>> >>,
      << <<128, 0, 0, 0>>, <<0, 0, 0, 0>>, <<129, 0, 0, 0>>, <<1, 1, 1, 0>> >>,
      << <<128, 1, 129, 1>>, <<0, 0, 1, 1>>, <<0, 0, 0, 1>>, <<0, 0, 0, 0>> >>,
      << <<128, 0, 129, 1>>, <<0, 0, 0, 1>>, <<0, 0, 0, 0>>, <<0, 0, 0, 0>> >>,
      << <<128, 0, 0, 0>>, <<1, 0, 0, 0>>, <<129, 1, 0, 0>>, <<1, 1, 1, 0>> >>,
      << <<128, 0, 0, 0>>, <<0, 0, 0, 0>>, <<129, 0, 0, 0>>, <<1, 1, 0, 0>> >>,
      << <<128, 1, 1, 1>>, <<0, 0, 1, 1>>, <<0, 0, 1, 1>>, <<0, 0, 0, 129>> >>,
      << <<128, 0, 129, 1>>, <<0, 0, 0, 1>>, <<0, 0, 0, 1>>, <<0, 0, 0, 0>> >>,
      << <<128, 0, 0, 0>>, <<1, 0, 0, 0>>, <<129, 0, 0, 0>>, <<1, 1, 0, 0>> >>,
      << <<128, 1, 129, 0>>, <<0, 1, 1, 0>>, <<0, 1, 1, 0>>, <<0, 1, 1, 0>> >>,
      << <<128, 0, 129, 1>>, <<0, 1, 1, 0>>, <<0, 1, 1, 0>>, <<1, 1, 0, 0>> >>,
      << <<128, 0, 0, 1>>, <<0, 1, 1, 1>>, <<129, 1, 1, 0>>, <<1, 0, 0, 0>> >>,
      << <<128, 0, 0, 0>>, <<1, 1, 1, 1>>, <<129, 1, 1, 1>>, <<0, 0, 0, 0>> >>,
      << <<128, 1, 129, 1>>, <<0, 0, 0, 1>>, <<1, 0, 0, 0>>, <<1, 1, 1, 0>> >>,
      << <<128, 0, 129, 1>>, <<1, 0, 0, 1>>, <<1, 0, 0, 1>>, <<1, 1, 0, 0>> >>
    >>

\* The arms of the match on the mode bits: the bit pattern, the mode it is
\* renumbered to, and the reads of the arm in order, each
\* <<channel (1 r, 2 g, 3 b, 4 partition), endpoint, bits, shift, reversed>>.
bc6h_arms ==
    <<
      [ pattern |-> 0, mode |-> 0, reads |->
          <<
            <<2, 2, 1, 4, 0>>, <<3, 2, 1, 4, 0>>, <<3, 3, 1, 4, 0>>, <<1, 0, 10, 0, 0>>,
            <<2, 0, 10, 0, 0>>, <<3, 0, 10, 0, 0>>, <<1, 1, 5, 0, 0>>, <<2, 3, 1, 4, 0>>,
            <<2, 2, 4, 0, 0>>, <<2, 1, 5, 0, 0>>, <<3, 3, 1, 0, 0>>, <<2, 3, 4, 0, 0>>,
            <<3, 1, 5, 0, 0>>, <<3, 3, 1, 1, 0>>, <<3, 2, 4, 0, 0>>, <<1, 2, 5, 0, 0>>,
            <<3, 3, 1, 2, 0>>, <<1, 3, 5, 0, 0>>, <<3, 3, 1, 3, 0>>, <<4, 0, 5, 0, 0>> >> ],
      [ pattern |-> 1, mode |-> 1, reads |->
          <<
            <<2, 2, 1, 5, 0>>, <<2, 3, 1, 4, 0>>, <<2, 3, 1, 5, 0>>, <<1, 0, 7, 0, 0>>,
            <<3, 3, 1, 0, 0>>, <<3, 3, 1, 1, 0>>, <<3, 2, 1, 4, 0>>, <<2, 0, 7, 0, 0>>,
            <<3, 2, 1, 5, 0>>, <<3, 3, 1, 2, 0>>, <<2, 2, 1, 4, 0>>, <<3, 0, 7, 0, 0>>,
            <<3, 3, 1, 3, 0>>, <<3, 3, 1, 5, 0>>, <<3, 3, 1, 4, 0>>, <<1, 1, 6, 0, 0>>,
            <<2, 2, 4, 0, 0>>, <<2, 1, 6, 0, 0>>, <<2, 3, 4, 0, 0>>, <<3, 1, 6, 0, 0>>,
            <<3, 2, 4, 0, 0>>, <<1, 2, 6, 0, 0>>, <<1, 3, 6, 0, 0>>, <<4, 0, 5, 0, 0>> >> ],
      [ pattern |-> 2, mode |-> 2, reads |->
          <<
            <<1, 0, 10, 0, 0>>, <<2, 0, 10, 0, 0>>, <<3, 0, 10, 0, 0>>, <<1, 1, 5, 0, 0>>,
            <<1, 0, 1, 10, 0>>, <<2, 2, 4, 0, 0>>, <<2, 1, 4, 0, 0>>, <<2, 0, 1, 10, 0>>,
            <<3, 3, 1, 0, 0>>, <<2, 3, 4, 0, 0>>, <<3, 1, 4, 0, 0>>, <<3, 0, 1, 10, 0>>,
            <<3, 3, 1, 1, 0>>, <<3, 2, 4, 0, 0>>, <<1, 2, 5, 0, 0>>, <<3, 3, 1, 2, 0>>,
            <<1, 3, 5, 0, 0>>, <<3, 3, 1, 3, 0>>, <<4, 0, 5, 0, 0>> >> ],
      [ pattern |-> 6, mode |-> 3, reads |->
          <<
            <<1, 0, 10, 0, 0>>, <<2, 0, 10, 0, 0>>, <<3, 0, 10, 0, 0>>, <<1, 1, 4, 0, 0>>,
            <<1, 0, 1, 10, 0>>, <<2, 3, 1, 4, 0>>, <<2, 2, 4, 0, 0>>, <<2, 1, 5, 0, 0>>,
            <<2, 0, 1, 10, 0>>, <<2, 3, 4, 0, 0>>, <<3, 1, 4, 0, 0>>, <<3, 0, 1, 10, 0>>,
            <<3, 3, 1, 1, 0>>, <<3, 2, 4, 0, 0>>, <<1, 2, 4, 0, 0>>, <<3, 3, 1, 0, 0>>,
            <<3, 3, 1, 2, 0>>, <<1, 3, 4, 0, 0>>, <<2, 2, 1, 4, 0>>, <<3, 3, 1, 3, 0>>,
            <<4, 0, 5, 0, 0>> >> ],
      [ pattern |-> 10, mode |-> 4, reads |->
          <<
            <<1, 0, 10, 0, 0>>, <<2, 0, 10, 0, 0>>, <<3, 0, 10, 0, 0>>, <<1, 1, 4, 0, 0>>,
            <<1, 0, 1, 10, 0>>, <<3, 2, 1, 4, 0>>, <<2, 2, 4, 0, 0>>, <<2, 1, 4, 0, 0>>,
            <<2, 0, 1, 10, 0>>, <<3, 3, 1, 0, 0>>, <<2, 3, 4, 0, 0>>, <<3, 1, 5, 0, 0>>,
            <<3, 0, 1, 10, 0>>, <<3, 2, 4, 0, 0>>, <<1, 2, 4, 0, 0>>, <<3, 3, 1, 1, 0>>,
            <<3, 3, 1, 2, 0>>, <<1, 3, 4, 0, 0>>, <<3, 3, 1, 4, 0>>, <<3, 3, 1, 3, 0>>,
            <<4, 0, 5, 0, 0>> >> ],
      [ pattern |-> 14, mode |-> 5, reads |->
          <<
            <<1, 0, 9, 0, 0>>, <<3, 2, 1, 4, 0>>, <<2, 0, 9, 0, 0>>, <<2, 2, 1, 4, 0>>,
            <<3, 0, 9, 0, 0>>, <<3, 3, 1, 4, 0>>, <<1, 1, 5, 0, 0>>, <<2, 3, 1, 4, 0>>,
            <<2, 2, 4, 0, 0>>, <<2, 1, 5, 0, 0>>, <<3, 3, 1, 0, 0>>, <<2, 3, 4, 0, 0>>,
            <<3, 1, 5, 0, 0>>, <<3, 3, 1, 1, 0>>, <<3, 2, 4, 0, 0>>, <<1, 2, 5, 0, 0>>,
            <<3, 3, 1, 2, 0>>, <<1, 3, 5, 0, 0>>, <<3, 3, 1, 3, 0>>, <<4, 0, 5, 0, 0>> >> ],
      [ pattern |-> 18, mode |-> 6, reads |->
          <<
            <<1, 0, 8, 0, 0>>, <<2, 3, 1, 4, 0>>, <<3, 2, 1, 4, 0>>, <<2, 0, 8, 0, 0>>,
            <<3, 3, 1, 2, 0>>, <<2, 2, 1, 4, 0>>, <<3, 0, 8, 0, 0>>, <<3, 3, 1, 3, 0>>,
            <<3, 3, 1, 4, 0>>, <<1, 1, 6, 0, 0>>, <<2, 2, 4, 0, 0>>, <<2, 1, 5, 0, 0>>,
            <<3, 3, 1, 0, 0>>, <<2, 3, 4, 0, 0>>, <<3, 1, 5, 0, 0>>, <<3, 3, 1, 1, 0>>,
            <<3, 2, 4, 0, 0>>, <<1, 2, 6, 0, 0>>, <<1, 3, 6, 0, 0>>, <<4, 0, 5, 0, 0>> >> ],
      [ pattern |-> 22, mode |-> 7, reads |->
          <<
            <<1, 0, 8, 0, 0>>, <<3, 3, 1, 0, 0>>, <<3, 2, 1, 4, 0>>, <<2, 0, 8, 0, 0>>,
            <<2, 2, 1, 5, 0>>, <<2, 2, 1, 4, 0>>, <<3, 0, 8, 0, 0>>, <<2, 3, 1, 5, 0>>,
            <<3, 3, 1, 4, 0>>, <<1, 1, 5, 0, 0>>, <<2, 3, 1, 4, 0>>, <<2, 2, 4, 0, 0>>,
            <<2, 1, 6, 0, 0>>, <<2, 3, 4, 0, 0>>, <<3, 1, 5, 0, 0>>, <<3, 3, 1, 1, 0>>,
            <<3, 2, 4, 0, 0>>, <<1, 2, 5, 0, 0>>, <<3, 3, 1, 2, 0>>, <<1, 3, 5, 0, 0>>,
            <<3, 3, 1, 3, 0>>, <<4, 0, 5, 0, 0>> >> ],
      [ pattern |-> 26, mode |-> 8, reads |->
          <<
            <<1, 0, 8, 0, 0>>, <<3, 3, 1, 1, 0>>, <<3, 2, 1, 4, 0>>, <<2, 0, 8, 0, 0>>,
            <<3, 2, 1, 5, 0>>, <<2, 2, 1, 4, 0>>, <<3, 0, 8, 0, 0>>, <<3, 3, 1, 5, 0>>,
            <<3, 3, 1, 4, 0>>, <<1, 1, 5, 0, 0>>, <<2, 3, 1, 4, 0>>, <<2, 2, 4, 0, 0>>,
            <<2, 1, 5, 0, 0>>, <<3, 3, 1, 0, 0>>, <<2, 3, 4, 0, 0>>, <<3, 1, 6, 0, 0>>,
            <<3, 2, 4, 0, 0>>, <<1, 2, 5, 0, 0>>, <<3, 3, 1, 2, 0>>, <<1, 3, 5, 0, 0>>,
            <<3, 3, 1, 3, 0>>, <<4, 0, 5, 0, 0>> >> ],
      [ pattern |-> 30, mode |-> 9, reads |->
          <<
            <<1, 0, 6, 0, 0>>, <<2, 3, 1, 4, 0>>, <<3, 3, 1, 0, 0>>, <<3, 3, 1, 1, 0>>,
            <<3, 2, 1, 4, 0>>, <<2, 0, 6, 0, 0>>, <<2, 2, 1, 5, 0>>, <<3, 2, 1, 5, 0>>,
            <<3, 3, 1, 2, 0>>, <<2, 2, 1, 4, 0>>, <<3, 0, 6, 0, 0>>, <<2, 3, 1, 5, 0>>,
            <<3, 3, 1, 3, 0>>, <<3, 3, 1, 5, 0>>, <<3, 3, 1, 4, 0>>, <<1, 1, 6, 0, 0>>,
            <<2, 2, 4, 0, 0>>, <<2, 1, 6, 0, 0>>, <<2, 3, 4, 0, 0>>, <<3, 1, 6, 0, 0>>,
            <<3, 2, 4, 0, 0>>, <<1, 2, 6, 0, 0>>, <<1, 3, 6, 0, 0>>, <<4, 0, 5, 0, 0>> >> ],
      [ pattern |-> 3, mode |-> 10, reads |->
          <<
            <<1, 0, 10, 0, 0>>, <<2, 0, 10, 0, 0>>, <<3, 0, 10, 0, 0>>, <<1, 1, 10, 0, 0>>,
            <<2, 1, 10, 0, 0>>, <<3, 1, 10, 0, 0>> >> ],
      [ pattern |-> 7, mode |-> 11, reads |->
          <<
            <<1, 0, 10, 0, 0>>, <<2, 0, 10, 0, 0>>, <<3, 0, 10, 0, 0>>, <<1, 1, 9, 0, 0>>,
            <<1, 0, 1, 10, 0>>, <<2, 1, 9, 0, 0>>, <<2, 0, 1, 10, 0>>, <<3, 1, 9, 0, 0>>,
            <<3, 0, 1, 10, 0>> >> ],
      [ pattern |-> 11, mode |-> 12, reads |->
          <<
            <<1, 0, 10, 0, 0>>, <<2, 0, 10, 0, 0>>, <<3, 0, 10, 0, 0>>, <<1, 1, 8, 0, 0>>,
            <<1, 0, 2, 10, 1>>, <<2, 1, 8, 0, 0>>, <<2, 0, 2, 10, 1>>, <<3, 1, 8, 0, 0>>,
            <<3, 0, 2, 10, 1>> >> ],
      [ pattern |-> 15, mode |-> 13, reads |->
          <<
            <<1, 0, 10, 0, 0>>, <<2, 0, 10, 0, 0>>, <<3, 0, 10, 0, 0>>, <<1, 1, 4, 0, 0>>,
            <<1, 0, 6, 10, 1>>, <<2, 1, 4, 0, 0>>, <<2, 0, 6, 10, 1>>, <<3, 1, 4, 0, 0>>,
            <<3, 0, 6, 10, 1>> >> ]
    >>

(***************************************************************************)
(* decode_block_bc6h                                                       *)
(***************************************************************************)
bc6h_ACTUAL_BITS_COUNT ==
    << <<10, 7, 11, 11, 11, 9, 8, 8, 8, 6, 10, 11, 12, 16>>,
       <<5, 6, 5, 4, 4, 5, 6, 5, 5, 6, 10, 9, 8, 4>>,
       <<5, 6, 4, 5, 4, 5, 5, 6, 5, 6, 10, 9, 8, 4>>,
       <<5, 6, 4, 4, 5, 5, 5, 5, 6, 6, 10, 9, 8, 4>> >>

WEIGHT2 == <<0, 21, 43, 64>>
WEIGHT3 == <<0, 9, 18, 27, 37, 46, 55, 64>>
WEIGHT4 == <<0, 4, 9, 13, 17, 21, 26, 30, 34, 38, 43, 47, 51, 55, 60, 64>>

\* The reads of one arm, in order, into r, g, b (st.ep[1..3]) and partition.
RECURSIVE bc6h_read_fields(_, _, _)
bc6h_read_fields(reads, k, st) ==
    IF k > Len(reads)
    THEN st
    ELSE LET f == reads[k]
             rd == IF f[5] = 1
                   THEN read_bits_reversed(st.bstream, f[3])
                   ELSE read_bits(st.bstream, f[3])
             v == rd.bits * Pow2(f[4])
         IN  bc6h_read_fields(reads, k + 1,
                 IF f[1] = 4
                 THEN [st EXCEPT !.bstream = rd.bstream, !.partition = v]
                 ELSE [st EXCEPT !.bstream = rd.bstream,
                                 !.ep[f[1]][f[2] + 1] = BitOr(@, v)])

\* One of r, g, b after sign extension, inverse transform and unquantize.
bc6h_endpoints(c, mode, delta_bits, is_signed) ==
    LET actual_bits0_mode == bc6h_ACTUAL_BITS_COUNT[1][mode + 1]
        n == IF mode >= 10 THEN 2 ELSE 4
        c0 == IF is_signed THEN extend_sign(c[1], actual_bits0_mode) ELSE c[1]
        extended(i) == IF (mode # 9 /\ mode # 10) \/ is_signed
                       THEN extend_sign(c[i], delta_bits)
                       ELSE c[i]
        transformed(i) == IF mode # 9 /\ mode # 10
                          THEN transform_inverse(extended(i), c0, actual_bits0_mode, is_signed)
                          ELSE extended(i)
    IN  [i \in 1..4 |->
           IF i > n THEN c[i]
           ELSE unquantize(IF i = 1 THEN c0 ELSE transformed(i),
                           actual_bits0_mode, is_signed)]

\* The pixel loop from pixel p on; c holds mode, partition, r, g, b, pitch
\* and is_signed.
RECURSIVE bc6h_pixels(_, _, _)
bc6h_pixels(p, bstream, c) ==
    IF p = 16
    THEN <<>>
    ELSE LET i == p \div 4
             j == p % 4
             shape == IF c.mode >= 10
                      THEN (IF i = 0 /\ j = 0 THEN 128 ELSE 0)
                      ELSE at(at(at(bc6h_PARTITION_SETS, c.partition), i), j)
             index_bits == (IF c.mode >= 10 THEN 4 ELSE 3)
                           - (IF (shape \div 128) % 2 = 1 THEN 1 ELSE 0)
             partition_set == shape % 2
             rd == read_bits(bstream, index_bits)
             index == rd.bits
             weights == IF c.mode >= 10 THEN WEIGHT4 ELSE WEIGHT3
             ep_i == partition_set * 2
             out == i * c.pitch + j * 3
             value(ch) == finish_unquantize(
                              interpolate(at(ch, ep_i), at(ch, ep_i + 1), weights, index),
                              c.is_signed)
         IN  (IF c.mode >= 10 THEN <<>> ELSE << <<"table", 32, c.partition>> >>)
             \o << <<"table", Len(weights), index>>,
                   <<"table", 4, ep_i + 1>>,
                   <<"write", out, value(c.r)>>,
                   <<"write", out + 1, value(c.g)>>,
                   <<"write", out + 2, value(c.b)>> >>
             \o bc6h_pixels(p + 1, rd.bstream, c)

bc6h_reserved_three_pixels(pitch) ==
    Flatten([i \in 1..4 |->
        << <<"slice", (i - 1) * pitch, (i - 1) * pitch + 9>> >>
        \o [n \in 1..9 |-> <<"write", (i - 1) * pitch + n - 1, 0>>]])

\* The arm of the reserved modes: decompressed_block[start..end].fill(f16::ZERO)
\* with end = start + 4 * 3, for each of the four rows.
bc6h_reserved(pitch) ==
    Flatten([i \in 1..4 |->
        << <<"slice", (i - 1) * pitch, (i - 1) * pitch + 12>> >>
        \o [n \in 1..12 |-> <<"write", (i - 1) * pitch + n - 1, 0>>]])

decode_block_bc6h(block, pitch, is_signed) ==
    LET m2 == read_bits(BitStream_new(block), 2)
        m5 == IF m2.bits > 1
              THEN read_bits(m2.bstream, 3)
              ELSE [bits |-> 0, bstream |-> m2.bstream]
        pattern == BitOr(m2.bits, m5.bits * 4)
        arms == {a \in 1..Len(bc6h_arms) : bc6h_arms[a].pattern = pattern}
    IN  << <<"read", 0, 8>>, <<"read", 8, 16>> >>
        \o IF arms = {}
           THEN bc6h_reserved(pitch)
           ELSE LET arm == bc6h_arms[CHOOSE a \in arms : TRUE]
                    st == bc6h_read_fields(arm.reads, 1,
                              [ bstream |-> m5.bstream,
                                ep |-> << <<0, 0, 0, 0>>, <<0, 0, 0, 0>>, <<0, 0, 0, 0>> >>,
                                partition |-> 0 ])
                    mode == arm.mode
                    bits(ch) == bc6h_ACTUAL_BITS_COUNT[ch + 1][mode + 1]
                IN  << <<"table", 14, mode>> >>
                    \o bc6h_pixels(0, st.bstream,
                         [ mode |-> mode, partition |-> st.partition,
                           pitch |-> pitch, is_signed |-> is_signed,
                           r |-> bc6h_endpoints(st.ep[1], mode, bits(1), is_signed),
                           g |-> bc6h_endpoints(st.ep[2], mode, bits(2), is_signed),
                           b |-> bc6h_endpoints(st.ep[3], mode, bits(3), is_signed) ])

\* f16::to_f32 as the upper 19 bits of the f32 pattern (sign, exponent and
\* the ten highest mantissa bits; the thirteen lower bits are zero).
f16_to_f32(h) ==
    LET s == h \div 32768
        e == (h \div 1024) % 32
        m == h % 1024
        k == CHOOSE n \in 1..10 : m * Pow2(n) >= 1024 /\ m * Pow2(n) < 2048
    IN  s * 262144
        + (IF e = 0 /\ m = 0 THEN 0
           ELSE IF e = 31 THEN 255 * 1024 + (IF m = 0 THEN 0 ELSE BitOr(m, 512))
           ELSE IF e = 0 THEN (113 - k) * 1024 + ((m * Pow2(k)) % 1024)
           ELSE (e + 112) * 1024 + m)

\* decode_block_bc6h_float: the block is decoded into a local [f16; 48] of
\* pitch 12, then copied row by row; after each row, the last included, the
\* output is re-sliced at destination_pitch.
decode_block_bc6h_float(block, pitch, is_signed) ==
    LET inner == run(decode_block_bc6h(block, 12, is_signed), 1,
                     [k \in 1..48 |-> 0],
                     [in_len |-> Len(block), pitch |-> 12, row_len |-> 12])
        local == inner.out
    IN  IF inner.fault # ""
        THEN << <<inner.fault, -1, -2>> >>
        ELSE Flatten([i \in 1..4 |->
                 [n \in 1..12 |->
                    <<"write", (i - 1) * pitch + n - 1,
                      f16_to_f32(local[(i - 1) * 12 + n])>>]
                 \o << <<"slice", i * pitch, i * pitch>> >>])

\* PARTITION_SETS[0] of decode_block_bc7: the 64 shapes of two subsets.
bc7_PARTITION_SETS_2 ==
    <<
      << <<128, 0, 1, 1>>, <<0, 0, 1, 1>>, <<0, 0, 1, 1>>, <<0, 0, 1, 129>> >>,
      << <<128, 0, 0, 1>>, <<0, 0, 0, 1>>, <<0, 0, 0, 1>>, <<0, 0, 0, 129>> >>,
      << <<128, 1, 1, 1>>, <<0, 1, 1, 1>>, <<0, 1, 1, 1>>, <<0, 1, 1, 129>> >>,
      << <<128, 0, 0, 1>>, <<0, 0, 1, 1>>, <<0, 0, 1, 1>>, <<0, 1, 1, 129>> >>,
      << <<128, 0, 0, 0>>, <<0, 0, 0, 1>>, <<0, 0, 0, 1>>, <<0, 0, 1, 129>> >>,
      << <<128, 0, 1, 1>>, <<0, 1, 1, 1>>, <<0, 1, 1, 1>>, <<1, 1, 1, 129>> >>,
      << <<128, 0, 0, 1>>, <<0, 0, 1, 1>>, <<0, 1, 1, 1>>, <<1, 1, 1, 129>> >>,
      << <<128, 0, 0, 0>>, <<0, 0, 0, 1>>, <<0, 0, 1, 1>>, <<0, 1, 1, 129>> >>,
      << <<128, 0, 0, 0>>, <<0, 0, 0, 0>>, <<0, 0, 0, 1>>, <<0, 0, 1, 129>> >>,
      << <<128, 0, 1, 1>>, <<0, 1, 1, 1>>, <<1, 1, 1, 1>>, <<1, 1, 1, 129>> >>,
      << <<128, 0, 0, 0>>, <<0, 0, 0, 1>>, <<0, 1, 1, 1>>, <<1, 1, 1, 129>> >>,
      << <<128, 0, 0, 0>>, <<0, 0, 0, 0>>, <<0, 0, 0, 1>>, <<0, 1, 1, 129>> >>,
      << <<128, 0, 0, 1>>, <<0, 1, 1, 1>>, <<1, 1, 1, 1>>, <<1, 1, 1, 129>> >>,
      << <<128, 0, 0, 0>>, <<0, 0, 0, 0>>, <<1, 1, 1, 1>>, <<1, 1, 1, 129>> >>,
      << <<128, 0, 0, 0>>, <<1, 1, 1, 1>>, <<1, 1, 1, 1>>, <<1, 1, 1, 129>> >>,
      << <<128, 0, 0, 0>>, <<0, 0, 0, 0>>, <<0, 0, 0, 0>>, <<1, 1, 1, 129>> >>,
      << <<128, 0, 0, 0>>, <<1, 0, 0, 0>>, <<1, 1, 1, 0>>, <<1, 1, 1, 129>> >>,
      << <<128, 1, 129, 1>>, <<0, 0, 0, 1>>, <<0, 0, 0, 0>>, <<0, 0, 0, 0>> >>,
      << <<128, 0, 0, 0>>, <<0, 0, 0, 0>>, <<129, 0, 0, 0>>, <<1, 1, 1, 0>> >>,
      << <<128, 1, 129, 1>>, <<0, 0, 1, 1>>, <<0, 0, 0, 1>>, <<0, 0, 0, 0>> >>,
      << <<128, 0, 129, 1>>, <<0, 0, 0, 1>>, <<0, 0, 0, 0>>, <<0, 0, 0, 0>> >>,
      << <<128, 0, 0, 0>>, <<1, 0, 0, 0>>, <<129, 1, 0, 0>>, <<1, 1, 1, 0>> >>,
      << <<128, 0, 0, 0>>, <<0, 0, 0, 0>>, <<129, 0, 0, 0>>, <<1, 1, 0, 0>> >>,
      << <<128, 1, 1, 1>>, <<0, 0, 1, 1>>, <<0, 0, 1, 1>>, <<0, 0, 0, 129>> >>,
      << <<128, 0, 129, 1>>, <<0, 0, 0, 1>>, <<0, 0, 0, 1>>, <<0, 0, 0, 0>> >>,
      << <<128, 0, 0, 0>>, <<1, 0, 0, 0>>, <<129, 0, 0, 0>>, <<1, 1, 0, 0>> >>,
      << <<128, 1, 129, 0>>, <<0, 1, 1, 0>>, <<0, 1, 1, 0>>, <<0, 1, 1, 0>> >>,
      << <<128, 0, 129, 1>>, <<0, 1, 1, 0>>, <<0, 1, 1, 0>>, <<1, 1, 0, 0>> >>,
      << <<128, 0, 0, 1>>, <<0, 1, 1, 1>>, <<129, 1, 1, 0>>, <<1, 0, 0, 0>> >>,
      << <<128, 0, 0, 0>>, <<1, 1, 1, 1>>, <<129, 1, 1, 1>>, <<0, 0, 0, 0>> >>,
      << <<128, 1, 129, 1>>, <<0, 0, 0, 1>>, <<1, 0, 0, 0>>, <<1, 1, 1, 0>> >>,
      << <<128, 0, 129, 1>>, <<1, 0, 0, 1>>, <<1, 0, 0, 1>>, <<1, 1, 0, 0>> >>,
      << <<128, 1, 0, 1>>, <<0, 1, 0, 1>>, <<0, 1, 0, 1>>, <<0, 1, 0, 129>> >>,
      << <<128, 0, 0, 0>>, <<1, 1, 1, 1>>, <<0, 0, 0, 0>>, <<1, 1, 1, 129>> >>,
      << <<128, 1, 0, 1>>, <<1, 0, 129, 0>>, <<0, 1, 0, 1>>, <<1, 0, 1, 0>> >>,
      << <<128, 0, 1, 1>>, <<0, 0, 1, 1>>, <<129, 1, 0, 0>>, <<1, 1, 0, 0>> >>,
      << <<128, 0, 129, 1>>, <<1, 1, 0, 0>>, <<0, 0, 1, 1>>, <<1, 1, 0, 0>> >>,
      << <<128, 1, 0, 1>>, <<0, 1, 0, 1>>, <<129, 0, 1, 0>>, <<1, 0, 1, 0>> >>,
      << <<128, 1, 1, 0>>, <<1, 0, 0, 1>>, <<0, 1, 1, 0>>, <<1, 0, 0, 129>> >>,
      << <<128, 1, 0, 1>>, <<1, 0, 1, 0>>, <<1, 0, 1, 0>>, <<0, 1, 0, 129>> >>,
      << <<128, 1, 129, 1>>, <<0, 0, 1, 1>>, <<1, 1, 0, 0>>, <<1, 1, 1, 0>> >>,
      << <<128, 0, 0, 1>>, <<0, 0, 1, 1>>, <<129, 1, 0, 0>>, <<1, 0, 0, 0>> >>,
      << <<128, 0, 129, 1>>, <<0, 0, 1, 0>>, <<0, 1, 0, 0>>, <<1, 1, 0, 0>> >>,
      << <<128, 0, 129, 1>>, <<1, 0, 1, 1>>, <<1, 1, 0, 1>>, <<1, 1, 0, 0>> >>,
      << <<128, 1, 129, 0>>, <<1, 0, 0, 1>>, <<1, 0, 0, 1>>, <<0, 1, 1, 0>> >>,
      << <<128, 0, 1, 1>>, <<1, 1, 0, 0>>, <<1, 1, 0, 0>>, <<0, 0, 1, 129>> >>,
      << <<128, 1, 1, 0>>, <<0, 1, 1, 0>>, <<1, 0, 0, 1>>, <<1, 0, 0, 129>> >>,
      << <<128, 0, 0, 0>>, <<0, 1, 129, 0>>, <<0, 1, 1, 0>>, <<0, 0, 0, 0>> >>,
      << <<128, 1, 0, 0>>, <<1, 1, 129, 0>>, <<0, 1, 0, 0>>, <<0, 0, 0, 0>> >>,
      << <<128, 0, 129, 0>>, <<0, 1, 1, 1>>, <<0, 0, 1, 0>>, <<0, 0, 0, 0>> >>,
      << <<128, 0, 0, 0>>, <<0, 0, 129, 0>>, <<0, 1, 1, 1>>, <<0, 0, 1, 0>> >>,
      << <<128, 0, 0, 0>>, <<0, 1, 0, 0>>, <<129, 1, 1, 0>>, <<0, 1, 0, 0>> >>,
      << <<128, 1, 1, 0>>, <<1, 1, 0, 0>>, <<1, 0, 0, 1>>, <<0, 0, 1, 129>> >>,
      << <<128, 0, 1, 1>>, <<0, 1, 1, 0>>, <<1, 1, 0, 0>>, <<1, 0, 0, 129>> >>,
      << <<128, 1, 129, 0>>, <<0, 0, 1, 1>>, <<1, 0, 0, 1>>, <<1, 1, 0, 0>> >>,
      << <<128, 0, 129, 1>>, <<1, 0, 0, 1>>, <<1, 1, 0, 0>>, <<0, 1, 1, 0>> >>,
      << <<128, 1, 1, 0>>, <<1, 1, 0, 0>>, <<1, 1, 0, 0>>, <<1, 0, 0, 129>> >>,
      << <<128, 1, 1, 0>>, <<0, 0, 1, 1>>, <<0, 0, 1, 1>>, <<1, 0, 0, 129>> >>,
      << <<128, 1, 1, 1>>, <<1, 1, 1, 0>>, <<1, 0, 0, 0>>, <<0, 0, 0, 129>> >>,
      << <<128, 0, 0, 1>>, <<1, 0, 0, 0>>, <<1, 1, 1, 0>>, <<0, 1, 1, 129>> >>,
      << <<128, 0, 0, 0>>, <<1, 1, 1, 1>>, <<0, 0, 1, 1>>, <<0, 0, 1, 129>> >>,
      << <<128, 0, 129, 1>>, <<0, 0, 1, 1>>, <<1, 1, 1, 1>>, <<0, 0, 0, 0>> >>,
      << <<128, 0, 129, 0>>, <<0, 0, 1, 0>>, <<1, 1, 1, 0>>, <<1, 1, 1, 0>> >>,
      << <<128, 1, 0, 0>>, <<0, 1, 0, 0>>, <<0, 1, 1, 1>>, <<0, 1, 1, 129>> >>
    >>

\* PARTITION_SETS[1] of decode_block_bc7: the 64 shapes of three subsets.
bc7_PARTITION_SETS_3 ==
    <<
      << <<128, 0, 1, 129>>, <<0, 0, 1, 1>>, <<0, 2, 2, 1>>, <<2, 2, 2, 130>> >>,
      << <<128, 0, 0, 129>>, <<0, 0, 1, 1>>, <<130, 2, 1, 1>>, <<2, 2, 2, 1>> >>,
      << <<128, 0, 0, 0>>, <<2, 0, 0, 1>>, <<130, 2, 1, 1>>, <<2, 2, 1, 129>> >>,
      << <<128, 2, 2, 130>>, <<0, 0, 2, 2>>, <<0, 0, 1, 1>>, <<0, 1, 1, 129>> >>,
      << <<128, 0, 0, 0>>, <<0, 0, 0, 0>>, <<129, 1, 2, 2>>, <<1, 1, 2, 130>> >>,
      << <<128, 0, 1, 129>>, <<0, 0, 1, 1>>, <<0, 0, 2, 2>>, <<0, 0, 2, 130>> >>,
      << <<128, 0, 2, 130>>, <<0, 0, 2, 2>>, <<1, 1, 1, 1>>, <<1, 1, 1, 129>> >>,
      << <<128, 0, 1, 1>>, <<0, 0, 1, 1>>, <<130, 2, 1, 1>>, <<2, 2, 1, 129>> >>,
      << <<128, 0, 0, 0>>, <<0, 0, 0, 0>>, <<129, 1, 1, 1>>, <<2, 2, 2, 130>> >>,
      << <<128, 0, 0, 0>>, <<1, 1, 1, 1>>, <<129, 1, 1, 1>>, <<2, 2, 2, 130>> >>,
      << <<128, 0, 0, 0>>, <<1, 1, 129, 1>>, <<2, 2, 2, 2>>, <<2, 2, 2, 130>> >>,
      << <<128, 0, 1, 2>>, <<0, 0, 129, 2>>, <<0, 0, 1, 2>>, <<0, 0, 1, 130>> >>,
      << <<128, 1, 1, 2>>, <<0, 1, 129, 2>>, <<0, 1, 1, 2>>, <<0, 1, 1, 130>> >>,
      << <<128, 1, 2, 2>>, <<0, 129, 2, 2>>, <<0, 1, 2, 2>>, <<0, 1, 2, 130>> >>,
      << <<128, 0, 1, 129>>, <<0, 1, 1, 2>>, <<1, 1, 2, 2>>, <<1, 2, 2, 130>> >>,
      << <<128, 0, 1, 129>>, <<2, 0, 0, 1>>, <<130, 2, 0, 0>>, <<2, 2, 2, 0>> >>,
      << <<128, 0, 0, 129>>, <<0, 0, 1, 1>>, <<0, 1, 1, 2>>, <<1, 1, 2, 130>> >>,
      << <<128, 1, 1, 129>>, <<0, 0, 1, 1>>, <<130, 0, 0, 1>>, <<2, 2, 0, 0>> >>,
      << <<128, 0, 0, 0>>, <<1, 1, 2, 2>>, <<129, 1, 2, 2>>, <<1, 1, 2, 130>> >>,
      << <<128, 0, 2, 130>>, <<0, 0, 2, 2>>, <<0, 0, 2, 2>>, <<1, 1, 1, 129>> >>,
      << <<128, 1, 1, 129>>, <<0, 1, 1, 1>>, <<0, 2, 2, 2>>, <<0, 2, 2, 130>> >>,
      << <<128, 0, 0, 129>>, <<0, 0, 0, 1>>, <<130, 2, 2, 1>>, <<2, 2, 2, 1>> >>,
      << <<128, 0, 0, 0>>, <<0, 0, 129, 1>>, <<0, 1, 2, 2>>, <<0, 1, 2, 130>> >>,
      << <<128, 0, 0, 0>>, <<1, 1, 0, 0>>, <<130, 2, 129, 0>>, <<2, 2, 1, 0>> >>,
      << <<128, 1, 2, 130>>, <<0, 129, 2, 2>>, <<0, 0, 1, 1>>, <<0, 0, 0, 0>> >>,
      << <<128, 0, 1, 2>>, <<0, 0, 1, 2>>, <<129, 1, 2, 2>>, <<2, 2, 2, 130>> >>,
      << <<128, 1, 1, 0>>, <<1, 2, 130, 1>>, <<129, 2, 2, 1>>, <<0, 1, 1, 0>> >>,
      << <<128, 0, 0, 0>>, <<0, 1, 129, 0>>, <<1, 2, 130, 1>>, <<1, 2, 2, 1>> >>,
      << <<128, 0, 2, 2>>, <<1, 1, 0, 2>>, <<129, 1, 0, 2>>, <<0, 0, 2, 130>> >>,
      << <<128, 1, 1, 0>>, <<0, 129, 1, 0>>, <<2, 0, 0, 2>>, <<2, 2, 2, 130>> >>,
      << <<128, 0, 1, 1>>, <<0, 1, 2, 2>>, <<0, 1, 130, 2>>, <<0, 0, 1, 129>> >>,
      << <<128, 0, 0, 0>>, <<2, 0, 0, 0>>, <<130, 2, 1, 1>>, <<2, 2, 2, 129>> >>,
      << <<128, 0, 0, 0>>, <<0, 0, 0, 2>>, <<129, 1, 2, 2>>, <<1, 2, 2, 130>> >>,
      << <<128, 2, 2, 130>>, <<0, 0, 2, 2>>, <<0, 0, 1, 2>>, <<0, 0, 1, 129>> >>,
      << <<128, 0, 1, 129>>, <<0, 0, 1, 2>>, <<0, 0, 2, 2>>, <<0, 2, 2, 130>> >>,
      << <<128, 1, 2, 0>>, <<0, 129, 2, 0>>, <<0, 1, 130, 0>>, <<0, 1, 2, 0>> >>,
      << <<128, 0, 0, 0>>, <<1, 1, 129, 1>>, <<2, 2, 130, 2>>, <<0, 0, 0, 0>> >>,
      << <<128, 1, 2, 0>>, <<1, 2, 0, 1>>, <<130, 0, 129, 2>>, <<0, 1, 2, 0>> >>,
      << <<128, 1, 2, 0>>, <<2, 0, 1, 2>>, <<129, 130, 0, 1>>, <<0, 1, 2, 0>> >>,
      << <<128, 0, 1, 1>>, <<2, 2, 0, 0>>, <<1, 1, 130, 2>>, <<0, 0, 1, 129>> >>,
      << <<128, 0, 1, 1>>, <<1, 1, 130, 2>>, <<2, 2, 0, 0>>, <<0, 0, 1, 129>> >>,
      << <<128, 1, 0, 129>>, <<0, 1, 0, 1>>, <<2, 2, 2, 2>>, <<2, 2, 2, 130>> >>,
      << <<128, 0, 0, 0>>, <<0, 0, 0, 0>>, <<130, 1, 2, 1>>, <<2, 1, 2, 129>> >>,
      << <<128, 0, 2, 2>>, <<1, 129, 2, 2>>, <<0, 0, 2, 2>>, <<1, 1, 2, 130>> >>,
      << <<128, 0, 2, 130>>, <<0, 0, 1, 1>>, <<0, 0, 2, 2>>, <<0, 0, 1, 129>> >>,
      << <<128, 2, 2, 0>>, <<1, 2, 130, 1>>, <<0, 2, 2, 0>>, <<1, 2, 2, 129>> >>,
      << <<128, 1, 0, 1>>, <<2, 2, 130, 2>>, <<2, 2, 2, 2>>, <<0, 1, 0, 129>> >>,
      << <<128, 0, 0, 0>>, <<2, 1, 2, 1>>, <<130, 1, 2, 1>>, <<2, 1, 2, 129>> >>,
      << <<128, 1, 0, 129>>, <<0, 1, 0, 1>>, <<0, 1, 0, 1>>, <<2, 2, 2, 130>> >>,
      << <<128, 2, 2, 130>>, <<0, 1, 1, 1>>, <<0, 2, 2, 2>>, <<0, 1, 1, 129>> >>,
      << <<128, 0, 0, 2>>, <<1, 129, 1, 2>>, <<0, 0, 0, 2>>, <<1, 1, 1, 130>> >>,
      << <<128, 0, 0, 0>>, <<2, 129, 1, 2>>, <<2, 1, 1, 2>>, <<2, 1, 1, 130>> >>,
      << <<128, 2, 2, 2>>, <<0, 129, 1, 1>>, <<0, 1, 1, 1>>, <<0, 2, 2, 130>> >>,
      << <<128, 0, 0, 2>>, <<1, 1, 1, 2>>, <<129, 1, 1, 2>>, <<0, 0, 0, 130>> >>,
      << <<128, 1, 1, 0>>, <<0, 129, 1, 0>>, <<0, 1, 1, 0>>, <<2, 2, 2, 130>> >>,
      << <<128, 0, 0, 0>>, <<0, 0, 0, 0>>, <<2, 1, 129, 2>>, <<2, 1, 1, 130>> >>,
      << <<128, 1, 1, 0>>, <<0, 129, 1, 0>>, <<2, 2, 2, 2>>, <<2, 2, 2, 130>> >>,
      << <<128, 0, 2, 2>>, <<0, 0, 1, 1>>, <<0, 0, 129, 1>>, <<0, 0, 2, 130>> >>,
      << <<128, 0, 2, 2>>, <<1, 1, 2, 2>>, <<129, 1, 2, 2>>, <<0, 0, 2, 130>> >>,
      << <<128, 0, 0, 0>>, <<0, 0, 0, 0>>, <<0, 0, 0, 0>>, <<2, 129, 1, 130>> >>,
      << <<128, 0, 0, 130>>, <<0, 0, 0, 1>>, <<0, 0, 0, 2>>, <<0, 0, 0, 129>> >>,
      << <<128, 2, 2, 2>>, <<1, 2, 2, 2>>, <<0, 2, 2, 2>>, <<129, 2, 2, 130>> >>,
      << <<128, 1, 0, 129>>, <<2, 2, 2, 2>>, <<2, 2, 2, 2>>, <<2, 2, 2, 130>> >>,
      << <<128, 1, 1, 129>>, <<2, 0, 1, 1>>, <<130, 2, 0, 1>>, <<2, 2, 2, 0>> >>
    >>

(***************************************************************************)
(* decode_block_bc7                                                        *)
(***************************************************************************)
bc7_ACTUAL_BITS_COUNT ==
    << <<4, 6, 5, 7, 5, 7, 7, 5>>,
       <<0, 0, 0, 0, 6, 8, 7, 5>> >>

\* bit mode of MODE_HAS_P_BITS = 0b11001011
MODE_HAS_P_BITS(mode) == IF mode \in {0, 1, 3, 6, 7} THEN 1 ELSE 0

\* read_bits for each width in turn
RECURSIVE read_seq(_, _, _)
read_seq(bstream, widths, k) ==
    IF k > Len(widths)
    THEN [bits |-> <<>>, bstream |-> bstream]
    ELSE LET rd == read_bits(bstream, widths[k])
             rest == read_seq(rd.bstream, widths, k + 1)
         IN  [bits |-> <<rd.bits>> \o rest.bits, bstream |-> rest.bstream]

\* while mode < 8 && bstream.read_bit() == 0 { mode += 1 }
RECURSIVE bc7_find_mode(_, _)
bc7_find_mode(bstream, mode) ==
    IF mode >= 8
    THEN [mode |-> mode, bstream |-> bstream]
    ELSE LET rd == read_bits(bstream, 1)
         IN  IF rd.bits = 0
             THEN bc7_find_mode(rd.bstream, mode + 1)
             ELSE [mode |-> mode, bstream |-> rd.bstream]

\* PARTITION_SETS[num_partitions - 2][partition][i][j], or the single-subset
\* shape.
bc7_partition_set(num_partitions, partition, i, j) ==
    IF num_partitions = 1
    THEN (IF i = 0 /\ j = 0 THEN 128 ELSE 0)
    ELSE at(at(at(IF num_partitions = 2 THEN bc7_PARTITION_SETS_2
                                         ELSE bc7_PARTITION_SETS_3,
                  partition), i), j)

\* endpoints[..] after the reads, the p-bits and the precision adjustment;
\* raw[j][k] are the bits read for component k of endpoint j, pbit[j] the
\* p-bit that goes into endpoint j.
bc7_endpoints(mode, num_endpoints, raw, pbit) ==
    LET shifted(j, k) ==
            IF mode \in {0, 1, 3, 6, 7}
            THEN IF mode = 1 /\ k = 4
                 THEN raw[j][k] * 2
                 ELSE BitOr(raw[j][k] * 2, pbit[j])
            ELSE raw[j][k]
        adjusted(v, bits) ==
            LET moved == v * Pow2(8 - bits)
            IN  BitOr(moved, moved \div Pow2(bits))
        rgb_bits == bc7_ACTUAL_BITS_COUNT[1][mode + 1] + MODE_HAS_P_BITS(mode)
        a_bits == bc7_ACTUAL_BITS_COUNT[2][mode + 1] + MODE_HAS_P_BITS(mode)
    IN  [j \in 1..6 |->
           IF j > num_endpoints
           THEN IF mode = 1 /\ j <= 4
                THEN <<pbit[j], pbit[j], pbit[j], 0>>
                ELSE <<0, 0, 0, 0>>
           ELSE [k \in 1..4 |->
                   IF k = 4
                   THEN IF bc7_ACTUAL_BITS_COUNT[2][mode + 1] = 0
                        THEN 255
                        ELSE adjusted(shifted(j, 4), a_bits)
                   ELSE adjusted(shifted(j, k), rgb_bits)]]

decode_block_bc7(block, pitch) ==
    LET found == bc7_find_mode(BitStream_new(block), 0)
        mode == found.mode
        num_partitions == IF mode \in {0, 2} THEN 3
                          ELSE IF mode \in {1, 3, 7} THEN 2 ELSE 1
        part == IF mode \in {0, 1, 2, 3, 7}
                THEN read_bits(found.bstream, IF mode = 0 THEN 4 ELSE 6)
                ELSE [bits |-> 0, bstream |-> found.bstream]
        partition == part.bits
        num_endpoints == num_partitions * 2
        rot == IF mode \in {4, 5}
               THEN read_bits(part.bstream, 2)
               ELSE [bits |-> 0, bstream |-> part.bstream]
        sel == IF mode = 4
               THEN read_bits(rot.bstream, 1)
               ELSE [bits |-> 0, bstream |-> rot.bstream]
        rotation == rot.bits
        index_selection_bit == sel.bits
        rgb == read_seq(sel.bstream,
                        [n \in 1..(3 * num_endpoints) |->
                           bc7_ACTUAL_BITS_COUNT[1][mode + 1]], 1)
        alpha == IF bc7_ACTUAL_BITS_COUNT[2][mode + 1] > 0
                 THEN read_seq(rgb.bstream,
                               [n \in 1..num_endpoints |->
                                  bc7_ACTUAL_BITS_COUNT[2][mode + 1]], 1)
                 ELSE [bits |-> [n \in 1..num_endpoints |-> 0],
                       bstream |-> rgb.bstream]
        raw == [j \in 1..num_endpoints |->
                  [k \in 1..4 |->
                     IF k = 4 THEN alpha.bits[j]
                     ELSE rgb.bits[(k - 1) * num_endpoints + j]]]
        pbits == IF mode = 1
                 THEN read_seq(alpha.bstream, <<1, 1>>, 1)
                 ELSE IF mode \in {0, 3, 6, 7}
                 THEN read_seq(alpha.bstream, [n \in 1..num_endpoints |-> 1], 1)
                 ELSE [bits |-> <<>>, bstream |-> alpha.bstream]
        pbit == [j \in 1..6 |->
                   IF mode = 1
                   THEN (IF j <= 2 THEN pbits.bits[1]
                         ELSE IF j <= 4 THEN pbits.bits[2] ELSE 0)
                   ELSE IF j <= Len(pbits.bits) THEN pbits.bits[j] ELSE 0]
        endpoints == bc7_endpoints(mode, num_endpoints, raw, pbit)
        index_bits == IF mode \in {0, 1} THEN 3 ELSE IF mode = 6 THEN 4 ELSE 2
        index_bits2 == IF mode = 4 THEN 3 ELSE IF mode = 5 THEN 2 ELSE 0
        weights == IF index_bits = 2 THEN WEIGHT2
                   ELSE IF index_bits = 3 THEN WEIGHT3 ELSE WEIGHT4
        weights2 == IF index_bits2 = 2 THEN WEIGHT2 ELSE WEIGHT3
        shape(p) == bc7_partition_set(num_partitions, partition,
                                      (p - 1) \div 4, (p - 1) % 4)
        fixup(p) == IF (shape(p) \div 128) % 2 = 1 THEN 1 ELSE 0
        lookup == IF num_partitions = 1
                  THEN <<>>
                  ELSE << <<"table", 2, num_partitions - 2>>,
                          <<"table", 64, partition>> >>
        indices == read_seq(pbits.bstream,
                            [p \in 1..16 |-> index_bits - fixup(p)], 1)
        indices2 == IF index_bits2 = 0
                    THEN [bits |-> [p \in 1..16 |-> 0], bstream |-> indices.bstream]
                    ELSE read_seq(indices.bstream,
                                  [p \in 1..16 |->
                                     IF p = 1 THEN index_bits2 - 1 ELSE index_bits2], 1)
        pixel[i \in 0..3, j \in 0..3] ==
            LET p == i * 4 + j + 1
                partition_set == shape(p) % 4
                index == indices.bits[p]
                index2 == indices2.bits[p]
                e0 == at(endpoints, partition_set * 2)
                e1 == at(endpoints, partition_set * 2 + 1)
                color(k) == IF index_bits2 # 0 /\ index_selection_bit # 0
                            THEN interpolate(e0[k], e1[k], weights2, index2)
                            ELSE interpolate(e0[k], e1[k], weights, index)
                scalar == IF index_bits2 = 0 \/ index_selection_bit # 0
                          THEN interpolate(e0[4], e1[4], weights, index)
                          ELSE interpolate(e0[4], e1[4], weights2, index2)
                r == IF rotation = 1 THEN scalar ELSE color(1)
                g == IF rotation = 2 THEN scalar ELSE color(2)
                b == IF rotation = 3 THEN scalar ELSE color(3)
                a == IF rotation = 0 THEN scalar ELSE color(rotation)
                offset == i * pitch + j * 4
            IN  lookup
                \o << <<"table", 6, partition_set * 2 + 1>>,
                      <<"table", Len(weights), index>> >>
                \o (IF index_bits2 = 0 THEN <<>>
                    ELSE << <<"table", Len(weights2), index2>> >>)
                \o << <<"write", offset, r % 256>>,
                      <<"write", offset + 1, g % 256>>,
                      <<"write", offset + 2, b % 256>>,
                      <<"write", offset + 3, a % 256>> >>
        zero[i \in 0..3, j \in 0..3] ==
            << <<"slice", i * pitch + j * 4, i * pitch + j * 4 + 4>> >>
            \o [n \in 1..4 |-> <<"write", i * pitch + j * 4 + n - 1, 0>>]
    IN  << <<"read", 0, 8>>, <<"read", 8, 16>> >>
        \o IF mode >= 8
           THEN ForEachPixel(zero)
           ELSE << <<"table", 8, mode>> >>
                \o Flatten([p \in 1..16 |-> lookup])
                \o ForEachPixel(pixel)

(***************************************************************************)
(* Calls of the block decoders.  The caller hands a compressed block and   *)
(* an output buffer whose cells are Unwritten; the buffer covers the tile  *)
(* of the given pitch, either ending with the tile's last row or holding   *)
(* four whole pitches.  The decoders keep no state between calls, so a    *)
(* behaviour holds one call.                                               *)
(***************************************************************************)
\* Cells of one tile row: bytes of RGBA8, R8 and RG8, and the three f16 or
\* f32 values of each of the four pixels.
row_len(decoder) ==
    CASE decoder \in {"bc1", "bc2", "bc3", "bc7"} -> 16
      [] decoder = "bc4" -> 4
      [] decoder = "bc5" -> 8
      [] decoder \in {"bc6h", "bc6h_float"} -> 12

decode_ops(decoder, block, pitch, is_signed) ==
    CASE decoder = "bc1" -> decode_block_bc1(block, pitch)
      [] decoder = "bc2" -> decode_block_bc2(block, pitch)
      [] decoder = "bc3" -> decode_block_bc3(block, pitch)
      [] decoder = "bc4" -> decode_block_bc4(block, pitch)
      [] decoder = "bc5" -> decode_block_bc5(block, pitch)
      [] decoder = "bc6h" -> decode_block_bc6h(block, pitch, is_signed)
      [] decoder = "bc6h_float" -> decode_block_bc6h_float(block, pitch, is_signed)
      [] decoder = "bc7" -> decode_block_bc7(block, pitch)

DecodeBlock(decoder, block, pitch, out_len, is_signed) ==
    \E res \in { run(decode_ops(decoder, block, pitch, is_signed), 1,
                     [k \in 1..out_len |-> Unwritten],
                     [in_len |-> Len(block), pitch |-> pitch,
                      row_len |-> row_len(decoder)]) } :
        /\ dec_pc = "idle"
        /\ dec_call' = [ decoder |-> decoder, compressed_block |-> block,
                         destination_pitch |-> pitch, out_len |-> out_len,
                         is_signed |-> is_signed ]
        /\ decompressed_block' = res.out
        /\ dec_fault' = res.fault
        /\ dec_pc' = IF res.fault = "" THEN "returned" ELSE "panic"
        /\ UNCHANGED non_decode_vars

\* Compressed blocks handed to the decoders: colour blocks over sixteen
\* endpoint values in both orders and equal, with every selector; alpha
\* blocks over six endpoint values with every index; BC6H blocks with each
\* of the 32 mode prefixes and BC7 blocks with each mode, the invalid one
\* included, over four fillings of the other bytes.
Blocks(decoder) ==
    LET U16s == {0, 1, 31, 2016, 33808, 63488, 65534, 65535,
                 4660, 22136, 39612, 57072, 11325, 48879, 51966, 2049}
        ColorBlocks(values) ==
            { << c0 % 256, c0 \div 256, c1 % 256, c1 \div 256, x, x, x, x >> :
                c0 \in values, c1 \in values, x \in {27, 228} }
        Ramp == <<136, 198, 250, 136, 198, 250>>
        AlphaIndices == { <<0, 0, 0, 0, 0, 0>>, <<255, 255, 255, 255, 255, 255>>, Ramp,
                          <<255, 255, 0, 0, 0, 0>>, <<146, 36, 73, 146, 0, 0>> }
        SmoothAlphaBlocks(ends, indices) ==
            { <<a0, a1>> \o idx : a0 \in ends, a1 \in ends, idx \in indices }
        SharpAlphaBlocks ==
            { [k \in 1..8 |-> 0], [k \in 1..8 |-> 255],
              <<16, 50, 84, 118, 152, 186, 220, 254>> }
        Fillers == {0, 255, 165, 60}
        WideBlocks(firsts, fills) ==
            { [k \in 1..16 |-> IF k = 1 THEN b0 ELSE IF k <= 8 THEN fg[1] ELSE fg[2]] :
                b0 \in firsts, fg \in fills }
    IN  CASE decoder = "bc1" -> ColorBlocks(U16s)
          [] decoder = "bc2" ->
                { a \o c : a \in SharpAlphaBlocks,
                           c \in ColorBlocks({0, 31, 63488, 65535}) }
          [] decoder = "bc3" ->
                { a \o c : a \in SmoothAlphaBlocks({0, 128, 255}, {Ramp}),
                           c \in ColorBlocks({0, 31, 63488, 65535}) }
          [] decoder = "bc4" ->
                SmoothAlphaBlocks({0, 1, 127, 128, 254, 255}, AlphaIndices)
          [] decoder = "bc5" ->
                { r \o g : r \in SmoothAlphaBlocks({0, 128, 255}, {Ramp}),
                           g \in SmoothAlphaBlocks({0, 128, 255}, AlphaIndices) }
          [] decoder \in {"bc6h", "bc6h_float"} ->
                WideBlocks({ m + 32 * h : m \in 0..31, h \in {0, 5} },
                           { <<f, f>> : f \in Fillers })
          [] decoder = "bc7" ->
                WideBlocks({0, 1, 2, 4, 8, 16, 32, 64, 128, 255, 85, 170,
                            6, 12, 24, 48, 96, 192},
                           Fillers \X Fillers)

\* One call of a decoder: pitches of a tight and of a padded image, buffers
\* that end with the tile's last row and buffers of four whole pitches.
Decode(decoder) ==
    \E block \in Blocks(decoder),
       pitch \in {row_len(decoder), row_len(decoder) + 4},
       is_signed \in (IF decoder \in {"bc6h", "bc6h_float"} THEN BOOLEAN ELSE {FALSE}) :
        \E out_len \in {3 * pitch + row_len(decoder), 4 * pitch} :
            DecodeBlock(decoder, block, pitch, out_len, is_signed)

NextDecode ==
    \/ Decode("bc1")
    \/ Decode("bc2")
    \/ Decode("bc3")
    \/ Decode("bc4")
    \/ Decode("bc5")
    \/ Decode("bc6h")
    \/ Decode("bc6h_float")
    \/ Decode("bc7")

InitDecode == EngineIdle /\ EncodeIdle /\ DecodeIdle

SpecDecode == InitDecode /\ [][NextDecode]_vars

(***************************************************************************)
(* Properties of the block decoders                                        *)
(***************************************************************************)
DecodeCalled == dec_pc # "idle"

\* The output buffer reaches the last cell of the tile.
CoversTile ==
    dec_call.out_len >= 3 * dec_call.destination_pitch + row_len(dec_call.decoder)

\* C7: every block decoder, for every compressed block and every output
\* buffer that covers the 4x4 tile of the given pitch, returns without an
\* access outside its tables, the compressed block or the tile.
C7_DecoderTotal ==
    (DecodeCalled /\ CoversTile) => dec_pc = "returned" /\ dec_fault = ""

\* What remains of C7: the only access that leaves its range is the re-slice
\* of decode_block_bc6h_float at four pitches, in a buffer that ends with the
\* tile; no table index and no read of the compressed block does.
FaultOnlyInFloatReslice ==
    (DecodeCalled /\ dec_fault # "") =>
        /\ dec_call.decoder = "bc6h_float"
        /\ dec_fault = "slice"
        /\ dec_call.out_len < 4 * dec_call.destination_pitch

Bc6hReservedMode == dec_call.compressed_block[1] % 32 \in {19, 23, 27, 31}

Bc7InvalidMode == dec_call.compressed_block[1] = 0

TileIsZero ==
    \A i \in 0..3, n \in 0..(row_len(dec_call.decoder) - 1) :
        decompressed_block[i * dec_call.destination_pitch + n + 1] = 0

UndefinedModeCall ==
    /\ DecodeCalled
    /\ \/ dec_call.decoder = "bc6h" /\ Bc6hReservedMode
       \/ dec_call.decoder = "bc7" /\ Bc7InvalidMode
       \/ /\ dec_call.decoder = "bc6h_float" /\ Bc6hReservedMode
          /\ dec_call.out_len >= 4 * dec_call.destination_pitch

\* C8: decode_block_bc6h on a block whose five mode bits are 0b10011, 0b10111,
\* 0b11011 or 0b11111, and decode_block_bc7 on a block whose first eight bits
\* are zero, return normally with every component of the 4x4 tile zero; so
\* does decode_block_bc6h_float on such a block when its buffer holds the
\* four whole pitches it slices.
C8_UndefinedModesDecodeToZero ==
    UndefinedModeCall => dec_pc = "returned" /\ TileIsZero

C8_Witness ==
    /\ DecodeCalled
    /\ dec_call.decoder = "bc6h"
    /\ dec_call.compressed_block[1] = 31
    /\ dec_call.compressed_block[2] = 255
    /\ dec_call.destination_pitch = 16
    /\ dec_pc = "returned"
    /\ TileIsZero
    /\ decompressed_block[13] = Unwritten

C8_WitnessBc7 ==
    /\ DecodeCalled
    /\ dec_call.decoder = "bc7"
    /\ Bc7InvalidMode
    /\ dec_call.compressed_block[2] = 255
    /\ dec_pc = "returned"
    /\ TileIsZero

(***************************************************************************)
(* compress_block_bc3_alpha.  The block holds the sixteen 8-bit values as  *)
(* f32; the f32 operations are computed on integers: a float is m * 2^-k   *)
(* with 2^23 <= m < 2^24, every result rounded to nearest, ties to even.   *)
(***************************************************************************)
RECURSIVE bitlen(_)
bitlen(n) == IF n = 0 THEN 0 ELSE 1 + bitlen(n \div 2)

\* base, with rem of the dropped bits against half of their range
f32_round(base, rem, half) ==
    IF half # 0 /\ (rem > half \/ (rem = half /\ base % 2 = 1))
    THEN base + 1
    ELSE base

\* 7.0 / d for an integer d in 1..255, as [m, k]: long division to 24 bits,
\* rounded on the remainder.
RECURSIVE f32_divide(_, _, _, _)
f32_divide(q, r, k, d) ==
    IF q < 8388608
    THEN f32_divide(2 * q + (IF 2 * r >= d THEN 1 ELSE 0), (2 * r) % d, k + 1, d)
    ELSE LET m == IF 2 * r > d \/ (2 * r = d /\ q % 2 = 1) THEN q + 1 ELSE q
         IN  IF m = 16777216 THEN [m |-> 8388608, k |-> k - 1] ELSE [m |-> m, k |-> k]

\* (hi * 4096 + lo) * 2^-k rounded to 24 bits, drop being the bits to drop.
f32_pack(hi, lo, drop, k) ==
    LET rounded == f32_round(hi * Pow2(12 - drop) + lo \div Pow2(drop),
                             lo % Pow2(drop),
                             IF drop > 0 THEN Pow2(drop - 1) ELSE 0)
    IN  IF rounded = 16777216
        THEN [m |-> 8388608, k |-> k - drop - 1]
        ELSE [m |-> rounded, k |-> k - drop]

\* t * scale for an integer t in 1..255, the product taken in two 12-bit
\* halves of scale.m.
f32_times(t, scale) ==
    f32_pack(t * (scale.m \div 4096) + (t * (scale.m % 4096)) \div 4096,
             (t * (scale.m % 4096)) % 4096,
             bitlen(t * (scale.m \div 4096) + (t * (scale.m % 4096)) \div 4096) - 12,
             scale.k)

\* sum * 2^-k rounded to 24 bits, then truncated to an integer: as i32.
f32_as_i32(sum, drop, k) ==
    f32_round(sum \div Pow2(drop), sum % Pow2(drop),
              IF drop > 0 THEN Pow2(drop - 1) ELSE 0) \div Pow2(k - drop)

\* (product + 0.5) as i32
f32_plus_half_as_i32(product) ==
    f32_as_i32(product.m + Pow2(product.k - 1),
               Max(bitlen(product.m + Pow2(product.k - 1)) - 24, 0),
               product.k)

\* ((v - ep[0]) * scale + 0.5) as i32 with d = ep[1] - ep[0] and
\* t = v - ep[0], integers with 0 <= t <= d
bc3_alpha_proj(d, t) ==
    IF t = 0
    THEN 0
    ELSE f32_plus_half_as_i32(f32_times(t, f32_divide(7 \div d, 7 % d, 0, d)))

bc3_alpha_index_unmapped(proj) == Min(Max(proj, 0), 7)

\* q = clamp(proj, 0, 7); q = 7 - q; if q > 0 { q += 1 }; if q == 8 { q = 1 }
bc3_alpha_index(proj) ==
    LET q == 7 - Min(Max(proj, 0), 7)
    IN  IF q = 0 THEN 0 ELSE IF q + 1 = 8 THEN 1 ELSE q + 1

\* An encoder that stores the minimum in the first byte.
compress_block_bc3_alpha_min_first(block) ==
    LET ep0 == CHOOSE v \in {block[k] : k \in 1..16} : \A k \in 1..16 : v <= block[k]
        ep1 == CHOOSE v \in {block[k] : k \in 1..16} : \A k \in 1..16 : v >= block[k]
        q == [k \in 0..15 |->
                bc3_alpha_index(IF ep0 = ep1 THEN 0
                                ELSE bc3_alpha_proj(ep1 - ep0, block[k + 1] - ep0))]
        qblock0 == q[0] + 8 * q[1] + 64 * q[2] + 512 * q[3] + 4096 * q[4]
                   + 32768 * q[5] + 262144 * q[6] + 2097152 * q[7]
        qblock1 == q[8] + 8 * q[9] + 64 * q[10] + 512 * q[11] + 4096 * q[12]
                   + 32768 * q[13] + 262144 * q[14] + 2097152 * q[15]
    IN  << ep0, ep1,
           qblock0 % 256, (qblock0 \div 256) % 256, qblock0 \div 65536,
           qblock1 % 256, (qblock1 \div 256) % 256, qblock1 \div 65536 >>

\* The eight bytes of data[0], data[1] in little-endian order.
compress_block_bc3_alpha(block) ==
    LET ep0 == CHOOSE v \in {block[k] : k \in 1..16} : \A k \in 1..16 : v <= block[k]
        ep1 == CHOOSE v \in {block[k] : k \in 1..16} : \A k \in 1..16 : v >= block[k]
        q == [k \in 0..15 |->
                bc3_alpha_index(IF ep0 = ep1 THEN 0
                                ELSE bc3_alpha_proj(ep1 - ep0, block[k + 1] - ep0))]
        qblock0 == q[0] + 8 * q[1] + 64 * q[2] + 512 * q[3] + 4096 * q[4]
                   + 32768 * q[5] + 262144 * q[6] + 2097152 * q[7]
        qblock1 == q[8] + 8 * q[9] + 64 * q[10] + 512 * q[11] + 4096 * q[12]
                   + 32768 * q[13] + 262144 * q[14] + 2097152 * q[15]
    IN  << ep1, ep0,
           qblock0 % 256, (qblock0 \div 256) % 256, qblock0 \div 65536,
           qblock1 % 256, (qblock1 \div 256) % 256, qblock1 \div 65536 >>

CompressBlockBc3Alpha(block) ==
    /\ alpha_data = <<>>
    /\ alpha_block' = block
    /\ alpha_data' = compress_block_bc3_alpha(block)
    /\ UNCHANGED <<engine_vars, encode_vars, decode_vars, fn_vars>>

\* Blocks of three values lo <= mid <= hi and the middle of lo and hi, in
\* two arrangements; lo = mid = hi gives the constant blocks, and the blocks
\* from 0 to hi give every difference of the endpoints.
AlphaInputs ==
    LET Values == {0, 1, 23, 46, 97, 127, 128, 194, 254, 255}
    IN  { [k \in 1..16 |->
             IF layout = 1
             THEN (CASE k % 4 = 1 -> t[1] [] k % 4 = 2 -> t[2] [] k % 4 = 3 -> t[3]
                     [] OTHER -> (t[1] + t[3]) \div 2)
             ELSE (IF k = 1 THEN t[1] ELSE IF k = 16 THEN t[3] ELSE t[2])] :
          t \in { u \in Values \X Values \X Values : u[1] <= u[2] /\ u[2] <= u[3] }
                \cup { << 0, hi \div 2, hi >> : hi \in 1..255 },
          layout \in {1, 2} }

\* decode_block_bc4 on the eight bytes the encoder produced, into sixteen
\* bytes of pitch 4.
DecodeAlpha ==
    \E res \in { run(decode_block_bc4(alpha_data, 4), 1,
                     [k \in 1..16 |-> Unwritten],
                     [in_len |-> Len(alpha_data), pitch |-> 4, row_len |-> 4]) } :
        /\ alpha_data # <<>>
        /\ dec_pc = "idle"
        /\ dec_call' = [ decoder |-> "bc4", compressed_block |-> alpha_data,
                         destination_pitch |-> 4, out_len |-> 16,
                         is_signed |-> FALSE ]
        /\ decompressed_block' = res.out
        /\ dec_fault' = res.fault
        /\ dec_pc' = IF res.fault = "" THEN "returned" ELSE "panic"
        /\ UNCHANGED non_decode_vars

\* The block is encoded, then its eight bytes are decoded by the
\* smooth-alpha decoder.
NextAlpha ==
    \/ \E block \in AlphaInputs : CompressBlockBc3Alpha(block)
    \/ DecodeAlpha

SpecAlpha == InitDecode /\ [][NextAlpha]_vars

AlphaDecoded == alpha_data # <<>> /\ dec_pc = "returned"

BlockMin == CHOOSE v \in {alpha_block[k] : k \in 1..16} : \A k \in 1..16 : v <= alpha_block[k]

BlockMax == CHOOSE v \in {alpha_block[k] : k \in 1..16} : \A k \in 1..16 : v >= alpha_block[k]

\* C9: for every 4x4 block of 8-bit values, encoding it with
\* compress_block_bc3_alpha and decoding the result with the smooth-alpha
\* decoder reproduces exactly every pixel whose value is the minimum or the
\* maximum of the block; a constant block is reproduced whole.
C9_AlphaRoundTrip ==
    AlphaDecoded =>
        \A k \in 1..16 :
            alpha_block[k] \in {BlockMin, BlockMax} => decompressed_block[k] = alpha_block[k]

\* A block with minimum 0, maximum 46 and the value 23 between them: the
\* 0 and the 46 come back, the 23 does not.
C9_Witness ==
    /\ AlphaDecoded
    /\ alpha_block[1] = 0 /\ decompressed_block[1] = 0
    /\ alpha_block[3] = 46 /\ decompressed_block[3] = 46
    /\ alpha_block[2] = 23 /\ decompressed_block[2] # 23

\* The constant blocks 0 and 255 come back whole.
C9_WitnessConstant ==
    /\ AlphaDecoded
    /\ alpha_block = [k \in 1..16 |-> 255]
    /\ decompressed_block = alpha_block

\* C28 as stated: the first endpoint byte of every block the smooth-alpha
\* encoder emits is greater than the second, so that the block decodes
\* through the branch of six interpolated values.
C28_SixInterpolantBranch ==
    alpha_data # <<>> => alpha_data[1] > alpha_data[2]

\* C28 amended: the encoder stores the maximum of the block in the first
\* byte and the minimum in the second, so the first is greater than or
\* equal to the second; it is greater, and the block decodes through the
\* branch of six interpolated values, exactly when the block is not
\* constant.  A constant block has both bytes equal and every index 1.
C28_EndpointOrder ==
    alpha_data # <<>> =>
        /\ alpha_data[1] = BlockMax
        /\ alpha_data[2] = BlockMin
        /\ alpha_data[1] >= alpha_data[2]
        /\ (alpha_data[1] > alpha_data[2]) <=> (BlockMax # BlockMin)
        /\ BlockMax = BlockMin =>
              SubSeq(alpha_data, 3, 8) = <<73, 146, 36, 73, 146, 36>>

\* A block of the values 23, 97 and 194 was encoded: 194 first, 23 second.
C28_Witness ==
    /\ alpha_data # <<>>
    /\ BlockMin = 23 /\ BlockMax = 194
    /\ alpha_data[1] = 194 /\ alpha_data[2] = 23

\* The constant block 128 was encoded and decoded: both endpoint bytes are
\* 128, the decoder took the other branch and gave back 128 everywhere.
C28_WitnessConstant ==
    /\ AlphaDecoded
    /\ alpha_block = [k \in 1..16 |-> 128]
    /\ alpha_data[1] = 128 /\ alpha_data[2] = 128
    /\ decompressed_block = alpha_block

ColorCall == DecodeCalled /\ dec_call.decoder \in {"bc1", "bc2", "bc3"}

\* The stored endpoint n (0 or 1) of the colour block, as a 16-bit integer.
ColorEndpoint(n) ==
    LET base == IF dec_call.decoder = "bc1" THEN 0 ELSE 8
    IN  dec_call.compressed_block[base + 2 * n + 1]
        + 256 * dec_call.compressed_block[base + 2 * n + 2]

\* The selector of pixel p (0..15) of the colour block.
ColorSelector(p) ==
    LET base == IF dec_call.decoder = "bc1" THEN 0 ELSE 8
    IN  (dec_call.compressed_block[base + 5 + p \div 4] \div (4 ^ (p % 4))) % 4

\* num / den rounded to the nearest integer.
Nearest(num, den) == (2 * num + den) \div (2 * den)

\* The palette the formulas give for the 5:6:5 endpoints c0 and c1: each
\* channel of w0 * c0 + w1 * c1 over w0 + w1, scaled from its 5 or 6 bits to
\* 0..255 and rounded to the nearest integer.
Blend(c0, c1, w0, w1) ==
    << Nearest(255 * (w0 * ((c0 \div 2048) % 32) + w1 * ((c1 \div 2048) % 32)), 31 * (w0 + w1)),
       Nearest(255 * (w0 * ((c0 \div 32) % 64) + w1 * ((c1 \div 32) % 64)), 63 * (w0 + w1)),
       Nearest(255 * (w0 * (c0 % 32) + w1 * (c1 % 32)), 31 * (w0 + w1)),
       255 >>

FourColourPalette(c0, c1) ==
    << Blend(c0, c1, 1, 0), Blend(c0, c1, 0, 1), Blend(c0, c1, 2, 1), Blend(c0, c1, 1, 2) >>

ThreeColourPalette(c0, c1) ==
    << Blend(c0, c1, 1, 0), Blend(c0, c1, 0, 1), Blend(c0, c1, 1, 1), <<0, 0, 0, 0>> >>

\* C10: decode_block_bc1 decodes every pixel with the four-colour opaque
\* palette (c2 = (2*c0 + c1)/3, c3 = (c0 + 2*c1)/3, alpha 255) when c0 > c1 as
\* 16-bit integers, and with c2 = (c0 + c1)/2 and selector 3 as transparent
\* black when c0 <= c1; the colour blocks of BC2 and BC3 decode with the
\* four-colour palette whatever the order of c0 and c1 (their alpha comes
\* from the alpha block).
C10_PaletteSelection ==
    (ColorCall /\ dec_pc = "returned") =>
        LET c0 == ColorEndpoint(0)
            c1 == ColorEndpoint(1)
            palette == IF dec_call.decoder # "bc1" \/ c0 > c1
                       THEN FourColourPalette(c0, c1)
                       ELSE ThreeColourPalette(c0, c1)
        IN  \A p \in 0..15 :
                LET offset == (p \div 4) * dec_call.destination_pitch + (p % 4) * 4
                    colour == palette[ColorSelector(p) + 1]
                IN  /\ \A n \in 1..3 : decompressed_block[offset + n] = colour[n]
                    /\ dec_call.decoder = "bc1" => decompressed_block[offset + 4] = colour[4]

\* decode_block_bc1 with c0 = c1 = 0xFFFF: selector 3 is transparent black
\* and selector 2 the colour itself.
C10_Witness ==
    /\ ColorCall
    /\ dec_pc = "returned"
    /\ dec_call.decoder = "bc1"
    /\ ColorEndpoint(0) = 65535
    /\ ColorEndpoint(1) = 65535
    /\ ColorSelector(0) = 3
    /\ ColorSelector(1) = 2
    /\ SubSeq(decompressed_block, 1, 8) = <<0, 0, 0, 0, 255, 255, 255, 255>>

\* decode_block_bc3 with c0 < c1: selector 3 is (c0 + 2*c1)/3, not black.
C10_WitnessBc3 ==
    /\ ColorCall
    /\ dec_pc = "returned"
    /\ dec_call.decoder = "bc3"
    /\ ColorEndpoint(0) = 0
    /\ ColorEndpoint(1) = 65535
    /\ ColorSelector(0) = 3
    /\ SubSeq(decompressed_block, 1, 3) = <<170, 170, 170>>

(***************************************************************************)
(* Properties of the smooth-alpha decoder (BC3 alpha, BC4, BC5)            *)
(***************************************************************************)
\* The smooth-alpha blocks of the call: where each starts in the compressed
\* block, the first cell it writes and the cells from one pixel to the next.
SmoothChannels ==
    CASE dec_call.decoder = "bc3" -> { [base |-> 0, out |-> 3, size |-> 4] }
      [] dec_call.decoder = "bc4" -> { [base |-> 0, out |-> 0, size |-> 1] }
      [] dec_call.decoder = "bc5" -> { [base |-> 0, out |-> 0, size |-> 2],
                                       [base |-> 8, out |-> 1, size |-> 2] }
      [] OTHER -> {}

SmoothCall == DecodeCalled /\ dec_pc = "returned" /\ SmoothChannels # {}

\* The stored endpoint n (0 or 1) of the channel.
SmoothEndpoint(ch, n) == dec_call.compressed_block[ch.base + n + 1]

\* Bit n of the 64 bits of the channel's block, bit 0 being the lowest bit of
\* its first byte.
SmoothBit(ch, n) ==
    (dec_call.compressed_block[ch.base + n \div 8 + 1] \div Pow2(n % 8)) % 2

\* The 3-bit index of pixel p (row-major, 0..15): bits 16+3p .. 16+3p+2.
SmoothIndex(ch, p) ==
    SmoothBit(ch, 16 + 3 * p) + 2 * SmoothBit(ch, 17 + 3 * p)
    + 4 * SmoothBit(ch, 18 + 3 * p)

\* What the call wrote for pixel p of the channel.
SmoothPixel(ch, p) ==
    decompressed_block[ch.out + (p \div 4) * dec_call.destination_pitch
                       + (p % 4) * ch.size + 1]

\* C11 as stated: with a0 > a1, index k+1 decodes to
\* (6-k)*a0/7 + k*a1/7 for k = 1..6, whatever the rounding of the two
\* quotients (less than 2 away from the exact value).
C11_SixSeventhsAsStated ==
    SmoothCall =>
        \A ch \in SmoothChannels, p \in 0..15 :
            LET a0 == SmoothEndpoint(ch, 0)
                a1 == SmoothEndpoint(ch, 1)
                k == SmoothIndex(ch, p) - 1
            IN  (a0 > a1 /\ k \in 1..6) =>
                    /\ 7 * SmoothPixel(ch, p) > (6 - k) * a0 + k * a1 - 14
                    /\ 7 * SmoothPixel(ch, p) < (6 - k) * a0 + k * a1 + 14

\* C11: in the smooth-alpha decoders (BC3 alpha, BC4, BC5), with a0 > a1,
\* the 3-bit index k+1 decodes, for k = 1..6, to
\* ((7-k)*a0 + k*a1) / 7 in integer division.
C11_SeventhsInterpolation ==
    SmoothCall =>
        \A ch \in SmoothChannels, p \in 0..15 :
            LET a0 == SmoothEndpoint(ch, 0)
                a1 == SmoothEndpoint(ch, 1)
                k == SmoothIndex(ch, p) - 1
            IN  (a0 > a1 /\ k \in 1..6) =>
                    SmoothPixel(ch, p) = ((7 - k) * a0 + k * a1) \div 7

\* decode_block_bc4 with a0 = 255, a1 = 0 and the indices 0..7 in order:
\* index 2 gives 218, index 7 gives 36.
C11_Witness ==
    /\ SmoothCall
    /\ dec_call.decoder = "bc4"
    /\ dec_call.destination_pitch = 4
    /\ SubSeq(dec_call.compressed_block, 1, 5) = <<255, 0, 136, 198, 250>>
    /\ SubSeq(decompressed_block, 1, 8) = <<255, 0, 218, 182, 145, 109, 72, 36>>

\* C12: in the smooth-alpha decoders, with a0 <= a1 (a0 = a1 included),
\* index 0 decodes to a0, index 1 to a1, index 6 to 0 and index 7 to 255,
\* the index of pixel p (row-major) being bits 16+3p .. 16+3p+2 of the
\* block.
C12_FifthsBranchEnds ==
    SmoothCall =>
        \A ch \in SmoothChannels, p \in 0..15 :
            LET a0 == SmoothEndpoint(ch, 0)
                a1 == SmoothEndpoint(ch, 1)
                index == SmoothIndex(ch, p)
            IN  a0 <= a1 =>
                    /\ index = 0 => SmoothPixel(ch, p) = a0
                    /\ index = 1 => SmoothPixel(ch, p) = a1
                    /\ index = 6 => SmoothPixel(ch, p) = 0
                    /\ index = 7 => SmoothPixel(ch, p) = 255

\* The block 00 FF FF FF 00 00 00 00: 255 for the first six pixels (five of
\* index 7, one of index 1), then 0.
C12_Witness ==
    /\ SmoothCall
    /\ dec_call.decoder = "bc4"
    /\ dec_call.destination_pitch = 4
    /\ dec_call.compressed_block = <<0, 255, 255, 255, 0, 0, 0, 0>>
    /\ SmoothIndex([base |-> 0, out |-> 0, size |-> 1], 4) = 7
    /\ SmoothIndex([base |-> 0, out |-> 0, size |-> 1], 5) = 1
    /\ SubSeq(decompressed_block, 1, 8) = <<255, 255, 255, 255, 255, 255, 0, 0>>

\* a0 = a1 = 128 with index 6: 0, not 128.
C12_WitnessEqual ==
    /\ SmoothCall
    /\ dec_call.decoder = "bc4"
    /\ SubSeq(dec_call.compressed_block, 1, 5) = <<128, 128, 136, 198, 250>>
    /\ SmoothPixel([base |-> 0, out |-> 0, size |-> 1], 6) = 0
    /\ SmoothPixel([base |-> 0, out |-> 0, size |-> 1], 7) = 255

(***************************************************************************)
(* CompressionVariant::blocks_byte_size (lib.rs:82-95) and                 *)
(* CompressionVariant::output_size (block_compressor.rs:57-74) in usize    *)
(* arithmetic.  A usize or u32 is the sequence of its bytes, lowest        *)
(* first; usize has UsizeBytes bytes on the target.  An operation that     *)
(* leaves the range panics in a build with overflow checks and wraps in a  *)
(* build without.                                                          *)
(***************************************************************************)
\* x as usize of n bytes
widen(x, n) == [k \in 1..n |-> IF k <= Len(x) THEN x[k] ELSE 0]

\* The bytes of the column sums cols[k..], carry coming in; the last entry
\* is the carry going out.
RECURSIVE carry_limbs(_, _, _)
carry_limbs(cols, k, carry) ==
    IF k > Len(cols)
    THEN <<carry>>
    ELSE CHOOSE limbs \in { <<sum % 256>> \o carry_limbs(cols, k + 1, sum \div 256) :
                               sum \in {cols[k] + carry} } : TRUE

\* x + c for a small c, in Len(x) bytes
wide_add(x, c) ==
    CHOOSE sum \in { [value |-> SubSeq(r, 1, Len(x)), overflow |-> r[Len(x) + 1] # 0] :
                      r \in { carry_limbs([k \in 1..Len(x) |->
                                               x[k] + (IF k = 1 THEN c ELSE 0)], 1, 0) } } :
        TRUE

\* x / 4
wide_quarter(x) ==
    CHOOSE quarter \in { [k \in 1..Len(v) |->
                            v[k] \div 4 + (IF k < Len(v) THEN (v[k + 1] % 4) * 64 ELSE 0)] :
                         v \in {x} } : TRUE

\* Sum of x[i] * y[k + 1 - i] over i >= from: column k of the product.
RECURSIVE product_column(_, _, _, _)
product_column(x, y, k, from) ==
    IF from > Len(x)
    THEN 0
    ELSE (IF k + 1 - from \in 1..Len(y) THEN x[from] * y[k + 1 - from] ELSE 0)
         + product_column(x, y, k, from + 1)

\* x * y in Len(x) bytes
wide_mul(x, y) ==
    CHOOSE product \in
        { [value |-> SubSeq(r, 1, Len(x)),
           overflow |-> \E k \in (Len(x) + 1)..(2 * Len(x) + 1) : r[k] # 0] :
          r \in { carry_limbs([k \in 1..(2 * Len(a)) |-> product_column(a, b, k, 1)], 1, 0) :
                   a \in {x}, b \in {y} } } : TRUE

\* block_count * block_size with block_width = (width as usize + 3) / 4 and
\* block_height alike; size is the block size of the variant.
blocks_byte_size_usize(size, width, height, usize_bytes, overflow_checks) ==
    LET width_3 == wide_add(widen(width, usize_bytes), 3)
        height_3 == wide_add(widen(height, usize_bytes), 3)
        block_width == wide_quarter(width_3.value)
        block_height == wide_quarter(height_3.value)
        block_count == wide_mul(block_width, block_height)
        total == wide_mul(block_count.value, widen(<<size>>, usize_bytes))
        overflow == \/ width_3.overflow \/ height_3.overflow
                    \/ block_count.overflow \/ total.overflow
    IN  IF overflow_checks /\ overflow
        THEN [panicked |-> TRUE, value |-> <<>>]
        ELSE [panicked |-> FALSE, value |-> total.value]

BlocksByteSize(fn, variant, width, height, usize_bytes, overflow_checks) ==
    /\ fn_call = <<>>
    /\ fn_call' = [ fn |-> fn, variant |-> variant, width |-> width,
                    height |-> height, usize_bytes |-> usize_bytes,
                    overflow_checks |-> overflow_checks ]
    /\ fn_result' = blocks_byte_size_usize(
                        IF fn = "blocks_byte_size" THEN block_byte_size(variant)
                                                   ELSE block_size(variant),
                        width, height, usize_bytes, overflow_checks)
    /\ UNCHANGED non_fn_vars

\* u32 values: 0, 1, 3, 4, 5, 8, 13, 1024, 2^18 - 3, 2^18, 2^31, 2^32 - 4,
\* 2^32 - 3 and 2^32 - 1.
U32Values ==
    { <<0, 0, 0, 0>>, <<1, 0, 0, 0>>, <<3, 0, 0, 0>>, <<4, 0, 0, 0>>,
      <<5, 0, 0, 0>>, <<8, 0, 0, 0>>, <<13, 0, 0, 0>>, <<0, 4, 0, 0>>,
      <<253, 255, 3, 0>>, <<0, 0, 4, 0>>, <<0, 0, 0, 128>>,
      <<252, 255, 255, 255>>, <<253, 255, 255, 255>>, <<255, 255, 255, 255>> }

\* size_of::<usize>() on the targets: 4 (wasm32) and 8.
UsizeBytes == {4, 8}

NextSize ==
    \/ \E variant \in Variants, width \in U32Values, height \in U32Values,
          usize_bytes \in UsizeBytes, overflow_checks \in BOOLEAN :
            BlocksByteSize("blocks_byte_size", variant, width, height,
                           usize_bytes, overflow_checks)
    \/ \E variant \in Variants, width \in U32Values, height \in U32Values,
          usize_bytes \in UsizeBytes, overflow_checks \in BOOLEAN :
            BlocksByteSize("output_size", variant, width, height,
                           usize_bytes, overflow_checks)

SpecSize == InitDecode /\ [][NextSize]_vars

SizeCalled == fn_call # <<>> /\ fn_call.fn \in {"blocks_byte_size", "output_size"}

\* ceil(x / 4) for a u32 x, in nine bytes
CeilQuarter(x) == wide_quarter(wide_add(widen(x, 9), 3).value)

\* ceil(width/4) * ceil(height/4) * block_size of the call as an integer of
\* nine bytes (it is at most 2^30 * 2^30 * 16 = 2^64), block_size being 8
\* for BC1 and BC4 and 16 otherwise.
ExactSize ==
    wide_mul(wide_mul(CeilQuarter(fn_call.width), CeilQuarter(fn_call.height)).value,
             widen(<<IF fn_call.variant \in {"BC1", "BC4"} THEN 8 ELSE 16>>, 9)).value

\* C13: for every variant and all widths and heights, blocks_byte_size and
\* output_size return ceil(width/4) * ceil(height/4) * block_size, with
\* block_size 8 for BC1 and BC4 and 16 for the other variants.
C13_BlocksByteSize ==
    SizeCalled =>
        /\ ~fn_result.panicked
        /\ widen(fn_result.value, 9) = ExactSize

\* What remains of C13: the call returns that product whenever the product
\* and width + 3, height + 3 fit a usize.
SizeExactWhenItFits ==
    SizeCalled =>
        \A exact \in {ExactSize} :
            (/\ \A k \in (fn_call.usize_bytes + 1)..9 : exact[k] = 0
             /\ \A x \in {fn_call.width, fn_call.height} :
                    fn_call.usize_bytes = 4 =>
                        ~(x[1] >= 253 /\ x[2] = 255 /\ x[3] = 255 /\ x[4] = 255))
            => (~fn_result.panicked /\ widen(fn_result.value, 9) = exact)

\* blocks_byte_size(BC7, u32::MAX, u32::MAX) on a 64-bit target without
\* overflow checks: 2^30 * 2^30 * 16 = 2^64 wraps to 0.
SizeWrapsToZero ==
    /\ SizeCalled
    /\ fn_call.fn = "blocks_byte_size"
    /\ fn_call.variant = "BC7"
    /\ fn_call.width = <<255, 255, 255, 255>>
    /\ fn_call.height = <<255, 255, 255, 255>>
    /\ fn_call.usize_bytes = 8
    /\ ~fn_result.panicked
    /\ fn_result.value = <<0, 0, 0, 0, 0, 0, 0, 0>>
    /\ ExactSize = <<0, 0, 0, 0, 0, 0, 0, 0, 1>>

\* A 13 x 5 image: 4 * 2 blocks, 64 bytes in BC1 and 128 in BC3.
SizeOfSmallImage ==
    /\ SizeCalled
    /\ fn_call.variant = "BC3"
    /\ fn_call.width = <<13, 0, 0, 0>>
    /\ fn_call.height = <<5, 0, 0, 0>>
    /\ ~fn_result.panicked
    /\ widen(fn_result.value, 4) = <<128, 0, 0, 0>>

(***************************************************************************)
(* CompressionVariant as a key (lib.rs:36-65): PartialEq and Hash on the   *)
(* discriminant, and the two HashMaps BlockCompressor::new fills through   *)
(* create_pipeline (block_compressor.rs:153-204, 232-314).  A variant is   *)
(* its tag and the settings it embeds; a Hasher is the sequence of the     *)
(* values written to it; a HashMap is the sequence of its entries, a key   *)
(* matching an entry when it hashes like the entry's key and is equal to   *)
(* it.                                                                     *)
(***************************************************************************)
VariantSettings(tag) ==
    CASE tag = "BC6H" -> {"very_fast", "basic", "very_slow"}
      [] tag = "BC7" -> {"alpha_ultrafast", "alpha_basic", "opaque_slow"}
      [] OTHER -> {"none"}

VariantValues ==
    UNION { { [tag |-> tag, settings |-> settings] : settings \in VariantSettings(tag) } :
            tag \in Variants }

\* std::mem::discriminant: the position of the tag in the enum
discriminant(variant) ==
    CASE variant.tag = "BC1" -> 0
      [] variant.tag = "BC2" -> 1
      [] variant.tag = "BC3" -> 2
      [] variant.tag = "BC4" -> 3
      [] variant.tag = "BC5" -> 4
      [] variant.tag = "BC6H" -> 5
      [] variant.tag = "BC7" -> 6

\* What #[derive(PartialEq)] would compare.
variant_eq_derived(a, b) == a = b

\* What #[derive(Hash)] would write.
variant_hash_derived(variant, state) ==
    state \o <<discriminant(variant), variant.settings>>

variant_eq(a, b) == discriminant(a) = discriminant(b)

variant_hash(variant, state) == Append(state, discriminant(variant))

\* The positions of the entries of the map that the key matches.
hashmap_find(map, key) ==
    { n \in 1..Len(map) :
        /\ variant_hash(map[n].key, <<>>) = variant_hash(key, <<>>)
        /\ variant_eq(map[n].key, key) }

\* HashMap::insert: the value of a matching entry is replaced, its key kept.
hashmap_insert(map, key, value) ==
    IF hashmap_find(map, key) = {}
    THEN Append(map, [key |-> key, value |-> value])
    ELSE [n \in 1..Len(map) |->
            IF n \in hashmap_find(map, key)
            THEN [key |-> map[n].key, value |-> value]
            ELSE map[n]]

\* HashMap::get
hashmap_get(map, key) ==
    IF hashmap_find(map, key) = {}
    THEN "None"
    ELSE map[CHOOSE n \in hashmap_find(map, key) : TRUE].value

\* create_pipeline: the layout and the pipeline carry the name of the
\* variant they were made for.
create_pipeline(maps, variant) ==
    [ bind_group_layouts |->
          hashmap_insert(maps.bind_group_layouts, variant, variant.tag),
      pipelines |-> hashmap_insert(maps.pipelines, variant, variant.tag) ]

\* The seven create_pipeline calls of new, in their order.
RECURSIVE create_pipelines(_, _, _)
create_pipelines(maps, keys, n) ==
    IF n > Len(keys)
    THEN maps
    ELSE create_pipelines(create_pipeline(maps, keys[n]), keys, n + 1)

VariantEq(a, b) ==
    /\ fn_call = <<>>
    /\ fn_call' = [fn |-> "eq", a |-> a, b |-> b]
    /\ fn_result' = variant_eq(a, b)
    /\ UNCHANGED non_fn_vars

\* Two variants hashed into two fresh hashers.
VariantHash(a, b) ==
    /\ fn_call = <<>>
    /\ fn_call' = [fn |-> "hash", a |-> a, b |-> b]
    /\ fn_result' = <<variant_hash(a, <<>>), variant_hash(b, <<>>)>>
    /\ UNCHANGED non_fn_vars

\* new: the maps after the seven calls, BC6H and BC7 keyed with the
\* settings given.
NewPipelines(bc6h, bc7) ==
    /\ fn_call = <<>>
    /\ fn_call' = [fn |-> "new", bc6h |-> bc6h, bc7 |-> bc7]
    /\ fn_result' =
          create_pipelines(
              [bind_group_layouts |-> <<>>, pipelines |-> <<>>],
              << [tag |-> "BC1", settings |-> "none"],
                 [tag |-> "BC2", settings |-> "none"],
                 [tag |-> "BC3", settings |-> "none"],
                 [tag |-> "BC4", settings |-> "none"],
                 [tag |-> "BC5", settings |-> "none"],
                 [tag |-> "BC6H", settings |-> bc6h],
                 [tag |-> "BC7", settings |-> bc7] >>, 1)
    /\ UNCHANGED non_fn_vars

\* add_task's bind_group_layouts.get(&variant) and compress's
\* pipelines.get(&task.variant) on the maps new made.
GetPipeline(variant) ==
    /\ fn_call # <<>>
    /\ fn_call.fn = "new"
    /\ fn_call' = [fn |-> "get", variant |-> variant]
    /\ fn_result' =
          [ bind_group_layouts |-> fn_result.bind_group_layouts,
            pipelines |-> fn_result.pipelines,
            bind_group_layout |-> hashmap_get(fn_result.bind_group_layouts, variant),
            pipeline |-> hashmap_get(fn_result.pipelines, variant) ]
    /\ UNCHANGED non_fn_vars

NextVariant ==
    \/ \E a \in VariantValues, b \in VariantValues : VariantEq(a, b)
    \/ \E a \in VariantValues, b \in VariantValues : VariantHash(a, b)
    \/ \E bc6h \in VariantSettings("BC6H"), bc7 \in VariantSettings("BC7") :
          NewPipelines(bc6h, bc7)
    \/ \E variant \in VariantValues : GetPipeline(variant)

SpecVariant == InitDecode /\ [][NextVariant]_vars

VariantCalled(fn) == fn_call # <<>> /\ fn_call.fn = fn

\* The map holds exactly one entry for each tag.
OneEntryPerTag(map) ==
    /\ Len(map) = Cardinality(Variants)
    /\ \A tag \in Variants :
          Cardinality({ n \in 1..Len(map) : map[n].key.tag = tag }) = 1

\* C14: two CompressionVariant values are equal, and write the same to a
\* hasher, exactly when they have the same tag, whatever settings they
\* embed; the pipeline and bind-group-layout maps hold exactly one entry for
\* each tag, and a lookup with any settings value finds the entry of its tag.
C14_IdentityIsTag ==
    /\ VariantCalled("eq") => (fn_result <=> fn_call.a.tag = fn_call.b.tag)
    /\ VariantCalled("hash") =>
          (fn_result[1] = fn_result[2] <=> fn_call.a.tag = fn_call.b.tag)
    /\ (VariantCalled("new") \/ VariantCalled("get")) =>
          /\ OneEntryPerTag(fn_result.pipelines)
          /\ OneEntryPerTag(fn_result.bind_group_layouts)
    /\ VariantCalled("get") =>
          /\ fn_result.pipeline = fn_call.variant.tag
          /\ fn_result.bind_group_layout = fn_call.variant.tag

\* A lookup with BC7(opaque_slow) in maps keyed with BC7(alpha_basic) finds
\* the BC7 pipeline.
C14_Witness ==
    /\ VariantCalled("get")
    /\ fn_call.variant = [tag |-> "BC7", settings |-> "opaque_slow"]
    /\ \E n \in 1..Len(fn_result.pipelines) :
          fn_result.pipelines[n].key = [tag |-> "BC7", settings |-> "alpha_basic"]
    /\ fn_result.pipeline = "BC7"
    /\ fn_result.bind_group_layout = "BC7"

\* BC6H(very_fast) and BC6H(basic) are equal; BC6H(basic) and BC7 are not.
C14_WitnessEq ==
    /\ VariantCalled("eq")
    /\ fn_call.a = [tag |-> "BC6H", settings |-> "very_fast"]
    /\ fn_call.b = [tag |-> "BC6H", settings |-> "basic"]
    /\ fn_result = TRUE

(***************************************************************************)
(* Further properties of the engine.                                       *)
(***************************************************************************)
\* C15: in every upload, a BC6H or BC7 settings buffer is replaced, by a
\* larger one, exactly when the aligned stride times the number of queued
\* settings exceeds its size; after the upload the size of the settings
\* buffer is at least that required size.
C15_SettingsBufferGrowth ==
    [][ last_call'.op = "upload" =>
          /\ bc6h_settings_buffer' # bc6h_settings_buffer
                <=> bc6h_aligned_size * Len(bc6h_settings)
                        > buffers[bc6h_settings_buffer].size
          /\ bc7_settings_buffer' # bc7_settings_buffer
                <=> bc7_aligned_size * Len(bc7_settings)
                        > buffers[bc7_settings_buffer].size
          /\ bc6h_settings_buffer' # bc6h_settings_buffer
                => buffers'[bc6h_settings_buffer'].size
                       > buffers[bc6h_settings_buffer].size
          /\ bc7_settings_buffer' # bc7_settings_buffer
                => buffers'[bc7_settings_buffer'].size
                       > buffers[bc7_settings_buffer].size
          /\ buffers'[bc6h_settings_buffer'].size
                >= bc6h_aligned_size * Len(bc6h_settings)
          /\ buffers'[bc7_settings_buffer'].size
                >= bc7_aligned_size * Len(bc7_settings)
      ]_vars

\* Three BC6H tasks over two uploads: the first upload replaced the initial
\* buffer by one of two strides, the second, with one queued setting, kept
\* it.
C15_Witness ==
    /\ last_call.op = "upload"
    /\ next_id = 3
    /\ Len(task) = 3
    /\ \A k \in 1..3 : task[k].variant = "BC6H"
    /\ task[2].settings_offset = bc6h_aligned_size
    /\ task[3].settings_offset = 0
    /\ Len(buffers) = 3
    /\ bc6h_settings_buffer = 3
    /\ buffers[3].size = 2 * bc6h_aligned_size

(***************************************************************************)
(* Dispatch geometry: compress (block_compressor.rs:606-612) on tasks of   *)
(* many sizes, and BC3Compressor::dispatch (bc3_compressor.rs:32-42),      *)
(* which computes the same counts from the width and height it is given.   *)
(***************************************************************************)
GeometryDims ==
    { <<width, height>> : width \in {4, 8, 36, 60, 64, 260},
                          height \in {4, 32, 516} }

\* BC3Compressor::dispatch: set_pipeline, then dispatch_workgroups.
Bc3Dispatch(width, height) ==
    /\ fn_call = <<>>
    /\ next_id = 0
    /\ fn_call' = [fn |-> "BC3Compressor::dispatch", width |-> width, height |-> height]
    /\ fn_result' = workgroups([width |-> width, height |-> height])
    /\ UNCHANGED non_fn_vars

NextGeometry ==
    \/ \E dims \in GeometryDims, variant \in {"BC1", "BC3"} :
          fn_call = <<>> /\ AddPlainTask("a", dims, variant)
    \/ fn_call = <<>> /\ Compress
    \/ \E dims \in GeometryDims \cup {<<5, 7>>, <<33, 1>>} : Bc3Dispatch(dims[1], dims[2])

SpecGeometry == InitEncode /\ [][NextGeometry]_vars

\* The task a dispatch of the pass was recorded for.
TaskOf(dispatch) == task[CHOOSE k \in 1..Len(task) : task[k].id = dispatch.id]

\* n is ceil(blocks / 8): the least number of groups of 8 that holds them.
IsCeilOfEighth(n, blocks) == 8 * n >= blocks /\ 8 * (n - 1) < blocks

\* C16: for each task compress dispatches ceil(block_w/8) x ceil(block_h/8)
\* x 1 workgroups with block_w = width/4 and block_h = height/4, so the
\* groups of 8 x 8 blocks cover every block of the image;
\* BC3Compressor::dispatch does the same for the blocks that cover its
\* width and height.
C16_DispatchGeometry ==
    /\ \A k \in 1..Len(pass_log) :
          /\ TaskOf(pass_log[k]).width % 4 = 0
          /\ TaskOf(pass_log[k]).height % 4 = 0
          /\ IsCeilOfEighth(pass_log[k].workgroups[1], TaskOf(pass_log[k]).width \div 4)
          /\ IsCeilOfEighth(pass_log[k].workgroups[2], TaskOf(pass_log[k]).height \div 4)
          /\ pass_log[k].workgroups[3] = 1
    /\ (fn_call # <<>> /\ fn_call.fn = "BC3Compressor::dispatch") =>
          /\ \E blocks \in 1..fn_call.width :
                /\ 4 * blocks >= fn_call.width /\ 4 * (blocks - 1) < fn_call.width
                /\ IsCeilOfEighth(fn_result[1], blocks)
          /\ \E blocks \in 1..fn_call.height :
                /\ 4 * blocks >= fn_call.height /\ 4 * (blocks - 1) < fn_call.height
                /\ IsCeilOfEighth(fn_result[2], blocks)
          /\ fn_result[3] = 1

\* A pass over a 36 x 516 task (9 x 129 blocks, 2 x 17 workgroups) and a
\* 64 x 32 task (16 x 8 blocks, 2 x 1 workgroups).
C16_Witness ==
    /\ Len(pass_log) = 2
    /\ TaskOf(pass_log[1]).width = 36 /\ TaskOf(pass_log[1]).height = 516
    /\ pass_log[1].workgroups = <<2, 17, 1>>
    /\ TaskOf(pass_log[2]).width = 64 /\ TaskOf(pass_log[2]).height = 32
    /\ pass_log[2].workgroups = <<2, 1, 1>>

(***************************************************************************)
(* The life of a task: Created by its add call, Dispatched by a compress.  *)
(***************************************************************************)
\* The positions of the pass at which the task with this id is dispatched.
DispatchesOf(log, id) == { d \in 1..Len(log) : log[d].id = id }

\* The positions of the task vector that hold the task with this id.
HeldAt(tasks, id) == { k \in 1..Len(tasks) : tasks[k].id = id }

\* What every engine call that does something changes: the record of the
\* call, the pass, the count of the add calls or the number of tasks held.
engine_step == <<last_call, pass_log, next_id, Len(task)>>

\* C18: each added task is dispatched exactly once, by the first compress
\* that follows its addition, and never again.  In every step: a compress
\* that returns dispatches each task that is still Created exactly once
\* and no task that is Dispatched, and leaves them all Dispatched; any
\* other call dispatches nothing, a task it adds is Created and the tasks
\* it keeps stay as they are.
C18_DispatchedOnce ==
    [][ LET compressed == last_call'.op = "compress" /\ last_call'.result = "ok"
        IN  /\ compressed =>
                  /\ \A k \in 1..Len(task) :
                         Cardinality(DispatchesOf(pass_log', task[k].id)) =
                             IF task[k].dispatched = "Created" THEN 1 ELSE 0
                  /\ \A d \in 1..Len(pass_log') :
                         HeldAt(task, pass_log'[d].id) # {}
            /\ ~compressed => pass_log' = <<>>
            /\ \A k \in 1..Len(task') :
                  IF HeldAt(task, task'[k].id) = {}
                  THEN task'[k].dispatched = "Created" /\ task'[k].id = next_id'
                  ELSE \A j \in HeldAt(task, task'[k].id) :
                          task'[k].dispatched =
                              IF compressed THEN "Dispatched" ELSE task[j].dispatched
      ]_engine_step

\* A second compress has returned: it dispatched the task added after the
\* first compress and not the one the first compress had dispatched.
C18_Witness ==
    /\ CompressReturned
    /\ Len(task) = 2
    /\ task[1].result # "none" /\ task[1].dispatched = "Dispatched"
    /\ DispatchesOf(pass_log, task[1].id) = {}
    /\ Cardinality(DispatchesOf(pass_log, task[2].id)) = 1
    /\ Len(pass_log) = 1

(***************************************************************************)
(* The settings buffer a dispatch is bound to, and the engine's own.       *)
(***************************************************************************)
\* The settings buffer the engine holds for the variant now.
current_settings_buffer(variant) ==
    IF variant = "BC6H" THEN bc6h_settings_buffer ELSE bc7_settings_buffer

\* upload has replaced the buffer new created for the variant.
Replaced(variant) ==
    current_settings_buffer(variant) # (IF variant = "BC6H" THEN 2 ELSE 1)

\* The dispatch reads offset .. offset + size inside the buffer it is bound to.
BindingInBounds(dispatch) ==
    dispatch.offset + settings_size(dispatch.variant)
        <= buffers[dispatch.bind_buffer].size

\* C19: once upload has replaced a settings buffer with a larger one, every
\* BC6H/BC7 task dispatched afterwards is bound to the replacement buffer,
\* not to a discarded one, and its dynamic offset plus the settings size
\* lies within the bound buffer.
C19_BindingFollowsGrowth ==
    \A d \in 1..Len(pass_log) :
        (IsSettingsVariant(pass_log[d].variant) /\ Replaced(pass_log[d].variant))
            => /\ pass_log[d].bind_buffer = current_settings_buffer(pass_log[d].variant)
               /\ BindingInBounds(pass_log[d])

\* What holds of C19: a dispatch whose bind group does refer to the
\* engine's current buffer reads inside it.
CurrentBindingInBounds ==
    \A d \in 1..Len(pass_log) :
        (/\ IsSettingsVariant(pass_log[d].variant)
         /\ pass_log[d].bind_buffer = current_settings_buffer(pass_log[d].variant))
            => BindingInBounds(pass_log[d])

\* Two BC6H tasks, upload, compress: both dispatches are bound to the
\* 20-byte buffer of new, which upload has replaced, and the second reads
\* at one stride, beyond its end.
StaleBindingDispatched ==
    /\ CompressReturned
    /\ Len(pass_log) = 2
    /\ \A d \in 1..2 : /\ pass_log[d].variant = "BC6H"
                        /\ pass_log[d].bind_buffer = 2
    /\ bc6h_settings_buffer = 3
    /\ buffers[2].size = SizeOfBc6HSettings
    /\ pass_log[2].offset = bc6h_aligned_size
    /\ ~BindingInBounds(pass_log[2])

\* A task added after the growth and dispatched on the replacement buffer.
DispatchedOnReplacement ==
    /\ CompressReturned
    /\ \E d \in 1..Len(pass_log) :
          /\ pass_log[d].variant = "BC6H"
          /\ pass_log[d].bind_buffer = 3
          /\ bc6h_settings_buffer = 3

(***************************************************************************)
(* Settings queued by the add calls and not yet uploaded.                  *)
(***************************************************************************)
\* C20: compress panics with "dispatch called before upload" if and only
\* if a BC6H or BC7 task has been added since the last upload; with only
\* BC1 to BC5 tasks added since then it proceeds.  Settings are queued
\* (in either vector) exactly from the first BC6H/BC7 add that returns
\* after an upload, or after new, until the next upload: new leaves none,
\* such an add leaves some, upload leaves none, every other call leaves
\* the queues as they were; and compress panics, with that message and
\* dispatching nothing, exactly when settings are queued.
C20_UploadPrecedesCompress ==
    /\ (bc6h_settings = <<>> /\ bc7_settings = <<>>)
    /\ [][ LET queued == bc6h_settings # <<>> \/ bc7_settings # <<>>
               queued_after == bc6h_settings' # <<>> \/ bc7_settings' # <<>>
               added == last_call'.op = "add_task" /\ last_call'.result = "ok"
           IN  /\ last_call'.op = "compress" =>
                     /\ (last_call'.result = "panic") <=> queued
                     /\ (engine_panic' = "dispatch called before upload") <=> queued
                     /\ queued => pass_log' = <<>> /\ task' = task
                     /\ queued_after <=> queued
               /\ last_call'.op = "upload" => ~queued_after
               /\ added =>
                     (queued_after <=>
                         (queued \/ IsSettingsVariant(task'[Len(task')].variant)))
               /\ (last_call'.op \notin {"compress", "upload"} /\ ~added) =>
                     (queued_after <=> queued)
         ]_engine_step

\* A BC7 task was added after the last upload, and compress panicked.
C20_Witness ==
    /\ last_call.op = "compress" /\ last_call.result = "panic"
    /\ engine_panic = "dispatch called before upload"
    /\ Len(buffers) = 3
    /\ bc6h_settings_buffer = 3
    /\ Len(task) = 2
    /\ task[1].variant = "BC6H" /\ task[1].dispatched = "Created"
    /\ task[2].variant = "BC7"
    /\ bc6h_settings = <<>>

\* BC1 tasks were added after the upload of a BC6H task: compress
\* dispatched all three without another upload.
C20_WitnessPlain ==
    /\ CompressReturned
    /\ Len(buffers) = 3
    /\ Len(pass_log) = 3
    /\ pass_log[1].variant = "BC6H"
    /\ pass_log[2].variant = "BC1" /\ pass_log[3].variant = "BC1"

(***************************************************************************)
(* Retrieval: get_block_data and get_texture.                              *)
(***************************************************************************)
\* The same task, in the state it was in.
SameTask(a, b) ==
    /\ a.id = b.id /\ a.key = b.key /\ a.variant = b.variant
    /\ a.dispatched = b.dispatched

\* C21: get_block_data(key) and get_texture(key) return None and leave the
\* task vector as it was when no task has the key; otherwise they remove
\* exactly one task with the key and no other task.  A removed task does
\* not come back: the ids of the tasks held are distinct and at most the
\* number of add calls, and a task that enters the vector is the one of a
\* new add call; so its result is fetched at most once.
C21_LookupAndRemove ==
    [][ /\ \A k \in 1..Len(task) :
              task[k].id <= next_id /\ HeldAt(task, task[k].id) = {k}
        /\ \A k \in 1..Len(task') :
              HeldAt(task, task'[k].id) = {} =>
                  task'[k].id = next_id' /\ next_id' = next_id + 1
        /\ last_call'.op \in {"get_block_data", "get_texture"} =>
              LET holders == { k \in 1..Len(task) : task[k].key = last_call'.args[1] }
              IN  IF holders = {}
                  THEN /\ last_call'.result = "None"
                       /\ Len(task') = Len(task)
                       /\ \A k \in 1..Len(task) : SameTask(task'[k], task[k])
                  ELSE /\ last_call'.result # "None"
                       /\ Len(task') = Len(task) - 1
                       /\ \E k \in holders :
                             /\ HeldAt(task', task[k].id) = {}
                             /\ \A j \in (1..Len(task)) \ {k} :
                                   \E i \in HeldAt(task', task[j].id) :
                                       SameTask(task'[i], task[j])
      ]_engine_step

\* Two tasks were added under the key "a" and a third under "b";
\* get_block_data("a") removed the first and kept the other two.
C21_Witness ==
    /\ last_call.op = "get_block_data"
    /\ last_call.args = <<"a">>
    /\ last_call.result = "Some"
    /\ Len(task) = 2
    /\ task[1].id = 3 /\ task[1].key = "b"
    /\ task[2].id = 2 /\ task[2].key = "a"

\* get_texture on a key no task has: None, and the task stays.
C21_WitnessNone ==
    /\ last_call.op = "get_texture"
    /\ last_call.args = <<"b">>
    /\ last_call.result = "None"
    /\ Len(task) = 1
    /\ task[1].key = "a"

(***************************************************************************)
(* Image-level decoding (decode.rs): decompress_blocks_as_rgba8, _rgba16f  *)
(* and _rgba32f with the loops of decompress_rgba8/16f/32f.  A block       *)
(* decoder runs on the slice rgba_data[output_offset..]; an index or a     *)
(* slice beyond the end of that slice is the panic of the bounds check.    *)
(***************************************************************************)
\* The bounds of a slice with no note of a tile: every offset below the
\* length is inside.
slice_env(buf, in_len) ==
    [in_len |-> in_len, pitch |-> Len(buf) + 1, row_len |-> Len(buf) + 1]

\* linear_to_srgb of an f32 given by the upper 19 bits of its pattern:
\* 0 for a NaN, a zero or a negative value, 255 from 1.0 on; the curve in
\* between is not evaluated, such a byte is kept as 1000 + the pattern it
\* is computed from.
linear_to_srgb(linear) ==
    LET sign == linear \div 262144
        exponent == (linear \div 1024) % 256
        mantissa == linear % 1024
    IN  IF exponent = 255 /\ mantissa # 0 THEN 0
        ELSE IF sign = 1 \/ (exponent = 0 /\ mantissa = 0) THEN 0
        ELSE IF exponent >= 127 THEN 255
        ELSE 1000 + linear

\* The loops "Convert R8 / RG8 / RGB16F to RGBA8" of the BC4, BC5 and BC6H
\* decoders: the first `channels` bytes of a pixel from the local buffer,
\* zero in the others.
convert_to_rgba8(buffer, PITCH, channels, pitch, srgb) ==
    LET pixel[y \in 0..3, x \in 0..3] ==
            [c \in 1..4 |->
                <<"write", y * pitch + x * 4 + (c - 1),
                  IF c > channels THEN 0
                  ELSE IF srgb THEN linear_to_srgb(buffer[y * PITCH + x * channels + c])
                  ELSE buffer[y * PITCH + x * channels + c]>>]
    IN  ForEachPixel(pixel)

\* The decoder's own buffer of n cells, decoded at its own pitch.
local_buffer(ops, n, in_len, PITCH) ==
    run(ops, 1, [k \in 1..n |-> 0], [in_len |-> in_len, pitch |-> PITCH, row_len |-> PITCH])

\* BlockRgba8Decoder::decode_block_rgba8 of each decoder (decode.rs:27-167)
decode_block_rgba8(variant, compressed, pitch) ==
    CASE variant = "BC1" -> decode_block_bc1(compressed, pitch)
      [] variant = "BC2" -> decode_block_bc2(compressed, pitch)
      [] variant = "BC3" -> decode_block_bc3(compressed, pitch)
      [] variant = "BC4" ->
            convert_to_rgba8(local_buffer(decode_block_bc4(compressed, 4), 16, 8, 4).out,
                             4, 1, pitch, FALSE)
      [] variant = "BC5" ->
            convert_to_rgba8(local_buffer(decode_block_bc5(compressed, 8), 32, 16, 8).out,
                             8, 2, pitch, FALSE)
      [] variant = "BC6H" ->
            convert_to_rgba8(
                local_buffer(decode_block_bc6h_float(compressed, 12, FALSE), 48, 16, 12).out,
                12, 3, pitch, TRUE)
      [] variant = "BC7" -> decode_block_bc7(compressed, pitch)

\* The block decoder each of the three image loops calls.
decode_block_as(format, variant, compressed, pitch) ==
    CASE format = "rgba8" -> decode_block_rgba8(variant, compressed, pitch)
      [] format = "rgba16f" -> decode_block_bc6h(compressed, pitch, FALSE)
      [] format = "rgba32f" -> decode_block_bc6h_float(compressed, pitch, FALSE)

\* The loops of decompress_rgba8 / 16f / 32f from block n on, n counting
\* the blocks row by row; break leaves the row.
RECURSIVE decompress_from(_, _, _, _, _, _, _)
decompress_from(format, variant, width, height, blocks_data, st, n) ==
    LET blocks_x == (width + 3) \div 4
        blocks_y == (height + 3) \div 4
        size == block_byte_size(variant)
        output_row_pitch == width * 4
        by == n \div blocks_x
        bx == n % blocks_x
        block_offset == n * size
        output_offset == by * 4 * output_row_pitch + bx * 16
    IN  IF st.fault # "" \/ n >= blocks_x * blocks_y
        THEN st
        ELSE IF block_offset + size > Len(blocks_data)
        THEN decompress_from(format, variant, width, height, blocks_data, st,
                             (by + 1) * blocks_x)
        ELSE IF output_offset >= Len(st.out)
        THEN decompress_from(format, variant, width, height, blocks_data, st, n + 1)
        ELSE CHOOSE after \in
                 { decompress_from(format, variant, width, height, blocks_data,
                       [fault |-> res.fault,
                        out |-> SubSeq(st.out, 1, output_offset) \o res.out], n + 1) :
                   res \in { run(decode_block_as(format, variant,
                                     SubSeq(blocks_data, block_offset + 1,
                                            block_offset + size),
                                     output_row_pitch),
                                 1, SubSeq(st.out, output_offset + 1, Len(st.out)),
                                 slice_env(SubSeq(st.out, output_offset + 1, Len(st.out)),
                                           size)) } } : TRUE

\* decompress_blocks_as_rgba8 / 16f / 32f: the two assertions, the match
\* on the variant and the loops.
decompress_blocks_as(format, variant, width, height, blocks_data, rgba_data) ==
    IF Len(blocks_data) # blocks_byte_size(variant, width, height)
    THEN [panic |-> "the input bitstream slice has not the expected size",
          rgba_data |-> rgba_data]
    ELSE IF Len(rgba_data) # width * height * 4
    THEN [panic |-> "the output slice has not the expected size",
          rgba_data |-> rgba_data]
    ELSE IF format # "rgba8" /\ variant # "BC6H"
    THEN [panic |-> "unsupported compression variant", rgba_data |-> rgba_data]
    ELSE CHOOSE ret \in
             { [panic |-> IF st.fault = "" THEN "" ELSE "out of range: " \o st.fault,
                rgba_data |-> st.out] :
               st \in { decompress_from(format, variant, width, height, blocks_data,
                                        [fault |-> "", out |-> rgba_data], 0) } } : TRUE

\* The bytes of the blocks of an image: every block the same sixteen (or
\* eight) bytes.
ImageBlocks ==
    { [k \in 1..16 |-> 0],
      [k \in 1..16 |-> 255],
      <<3, 165, 60, 17, 200, 90, 33, 250, 7, 129, 66, 240, 15, 99, 180, 1>>,
      <<1, 90, 165, 60, 255, 0, 36, 73, 146, 219, 109, 182, 27, 228, 85, 170>> }

repeat_block(block, size, len) == [k \in 1..len |-> block[((k - 1) % size) + 1]]

ImageDims == { <<w, h>> : w \in {1, 4, 5, 8}, h \in {1, 4, 7, 8} }

DecompressBlocksAs(format, variant, dims, block, short_in, long_out) ==
    \E ret \in { decompress_blocks_as(format, variant, dims[1], dims[2],
                      repeat_block(block, block_byte_size(variant),
                          blocks_byte_size(variant, dims[1], dims[2]) - short_in),
                      [k \in 1..(dims[1] * dims[2] * 4 + long_out) |-> Unwritten]) } :
        /\ fn_call = <<>>
        /\ fn_call' = [fn |-> "decompress_blocks_as_" \o format, variant |-> variant,
                       width |-> dims[1], height |-> dims[2], block |-> block,
                       blocks_len |-> blocks_byte_size(variant, dims[1], dims[2]) - short_in,
                       rgba_len |-> dims[1] * dims[2] * 4 + long_out]
        /\ fn_result' = ret
        /\ UNCHANGED non_fn_vars

NextImage ==
    \/ \E variant \in Variants, dims \in ImageDims, block \in ImageBlocks,
          short_in \in {0, 8}, long_out \in {0, 16} :
           DecompressBlocksAs("rgba8", variant, dims, block, short_in, long_out)
    \/ \E variant \in {"BC6H", "BC7"}, dims \in ImageDims, block \in ImageBlocks,
          short_in \in {0, 8}, long_out \in {0, 16} :
           DecompressBlocksAs("rgba16f", variant, dims, block, short_in, long_out)
    \/ \E variant \in {"BC6H", "BC7"}, dims \in ImageDims, block \in ImageBlocks,
          short_in \in {0, 8}, long_out \in {0, 16} :
           DecompressBlocksAs("rgba32f", variant, dims, block, short_in, long_out)

SpecImage == InitDecode /\ [][NextImage]_vars

ImageCalled(format) ==
    fn_call # <<>> /\ fn_call.fn = "decompress_blocks_as_" \o format

\* Both assertions on the slice lengths passed.
LengthChecksPass ==
    /\ fn_call.blocks_len = blocks_byte_size(fn_call.variant, fn_call.width, fn_call.height)
    /\ fn_call.rgba_len = fn_call.width * fn_call.height * 4

\* C22: for any width and height >= 1, multiples of four or not, and any
\* block bytes: when both length checks of decompress_blocks_as_rgba8 pass,
\* the decoding completes without an access out of bounds or a panic.
C22_ImageDecodeSafe ==
    (ImageCalled("rgba8") /\ LengthChecksPass) => fn_result.panic = ""

\* What holds of C22: with a width and a height that are multiples of four
\* the decoding completes and has written every byte of rgba_data, and
\* with any other width or height it panics.
ImageDecodeSafeOnWholeBlocks ==
    (ImageCalled("rgba8") /\ LengthChecksPass) =>
        IF fn_call.width % 4 = 0 /\ fn_call.height % 4 = 0
        THEN /\ fn_result.panic = ""
             /\ \A k \in 1..fn_call.rgba_len : fn_result.rgba_data[k] # Unwritten
        ELSE fn_result.panic # ""

\* A BC1 image of 5 x 7 pixels, four blocks of eight bytes, 140 bytes of
\* output: the third block is decoded into a slice that ends before the
\* tile does.
ImageOf5x7Panics ==
    /\ ImageCalled("rgba8") /\ LengthChecksPass
    /\ fn_call.variant = "BC1"
    /\ fn_call.width = 5 /\ fn_call.height = 7
    /\ fn_result.panic # ""

\* A BC7 image of 8 x 8 pixels decodes.
ImageOf8x8Decodes ==
    /\ ImageCalled("rgba8") /\ LengthChecksPass
    /\ fn_call.variant = "BC7"
    /\ fn_call.width = 8 /\ fn_call.height = 8
    /\ fn_result.panic = ""

\* A call of decompress_blocks_as_rgba16f or _rgba32f on BC6H blocks that
\* passed both assertions and returned.
FloatImageDecoded ==
    /\ (ImageCalled("rgba16f") \/ ImageCalled("rgba32f"))
    /\ LengthChecksPass
    /\ fn_call.variant = "BC6H"
    /\ fn_result.panic = ""

\* Channel c (0 red, 1 green, 2 blue) of pixel (i, j) of the image's block,
\* as decode_block_bc6h gives it in a tile of its own: an f16 pattern, or
\* its f32 for the rgba32f call.
DecodedChannel(i, j, c) ==
    LET half == local_buffer(decode_block_bc6h(fn_call.block, 12, FALSE),
                             48, 16, 12).out[i * 12 + j * 3 + c + 1]
    IN  IF ImageCalled("rgba32f") THEN f16_to_f32(half) ELSE half

\* C23: decompress_blocks_as_rgba16f and _rgba32f store the decoded red,
\* green and blue of every pixel (x, y) at rgba_data[(y*width + x)*4 + 0],
\* [+1] and [+2]: four components per pixel.
C23_FloatLayout ==
    FloatImageDecoded =>
        \A x \in 0..(fn_call.width - 1), y \in 0..(fn_call.height - 1), c \in 0..2 :
            fn_result.rgba_data[(y * fn_call.width + x) * 4 + c + 1]
                = DecodedChannel(y % 4, x % 4, c)

\* What the code does: three components per pixel inside each block's
\* sixteen cells of a row.  Pixel (x, y) is at y*width*4 + (x / 4)*16 +
\* (x % 4)*3, and the last four cells of each block row are not written.
FloatLayoutThreePerPixel ==
    FloatImageDecoded =>
        /\ \A x \in 0..(fn_call.width - 1), y \in 0..(fn_call.height - 1), c \in 0..2 :
              fn_result.rgba_data[y * fn_call.width * 4 + (x \div 4) * 16
                                  + (x % 4) * 3 + c + 1]
                  = DecodedChannel(y % 4, x % 4, c)
        /\ \A bx \in 0..((fn_call.width \div 4) - 1), y \in 0..(fn_call.height - 1),
              k \in 12..15 :
              fn_result.rgba_data[y * fn_call.width * 4 + bx * 16 + k + 1] = Unwritten

\* An rgba16f image of 8 x 8 pixels whose block has pixels of different
\* values: the green of pixel (0, 0) is where the claim puts the red of
\* pixel (1, 0) ... and the cell of (3, 0)'s red is not written.
FloatImageOf8x8 ==
    /\ FloatImageDecoded
    /\ ImageCalled("rgba16f")
    /\ fn_call.width = 8 /\ fn_call.height = 8
    /\ DecodedChannel(0, 0, 0) # DecodedChannel(0, 1, 0)
    /\ fn_result.rgba_data[4] = DecodedChannel(0, 1, 0)
    /\ fn_result.rgba_data[13] = Unwritten

\* An rgba32f image of 4 x 4 pixels decoded.
FloatImageOf4x4 ==
    /\ FloatImageDecoded
    /\ ImageCalled("rgba32f")
    /\ fn_call.width = 4 /\ fn_call.height = 4
    /\ fn_result.rgba_data[4] = DecodedChannel(0, 1, 0)

(***************************************************************************)
(* The BC1 colour encoder (encode.rs:223-394, the same code in             *)
(* encode/bc1_to_5.rs).  A u32 is the sequence of its 32 bits, bit 0       *)
(* first.  The endpoint colours that pick_endpoints and bc1_refine compute *)
(* and the levels fast_quant finds for distinct endpoints are inputs: they *)
(* are f32 results clamped to 0..255 and to 0..3.                          *)
(***************************************************************************)
\* enc_rgb565 of a colour whose channels are 0..255 after `as i32`
enc_rgb565(c) ==
    LET r5 == (c[1] * 31 + 128 + ((c[1] * 31) \div 256)) \div 256
        g6 == (c[2] * 63 + 128 + ((c[2] * 63) \div 256)) \div 256
        b5 == (c[3] * 31 + 128 + ((c[3] * 31) \div 256)) \div 256
    IN  r5 * 2048 + g6 * 32 + b5

dec_rgb565(p) ==
    LET b5 == p % 32
        g6 == (p \div 32) % 64
        r5 == (p \div 2048) % 32
    IN  << r5 * 8 + r5 \div 4, g6 * 4 + g6 \div 16, b5 * 8 + b5 \div 4 >>

\* bits += q * scaler for the sixteen levels
levels_to_bits(levels) ==
    [n \in 1..32 |-> (levels[(n - 1) \div 2 + 1] \div Pow2((n - 1) % 2)) % 2]

\* A fast_quant that keeps the projected levels when the endpoints are
\* equal.
fast_quant_projected(p0, p1, levels) == levels_to_bits(levels)

\* fast_quant: with distinct endpoints the sixteen clamped projections;
\* with equal endpoints dir is 0, rsq_norm is infinite, dir becomes NaN and
\* (dot + bias) as i32 is 0 for every pixel.
fast_quant(p0, p1, levels) ==
    IF dec_rgb565(p0) = dec_rgb565(p1)
    THEN levels_to_bits([k \in 1..16 |-> 0])
    ELSE levels_to_bits(levels)

\* The endpoints bc1_refine leaves in pe: the mean colour twice when all
\* sixteen levels are equal ((bits ^ (bits * 4)) < 4), the solution of the
\* least-squares system otherwise.
bc1_refine(bits, dc, c0, c1) ==
    IF \A n \in 3..32 : bits[n] = bits[n - 2]
    THEN << enc_rgb565(dc), enc_rgb565(dc) >>
    ELSE << enc_rgb565(c0), enc_rgb565(c1) >>

\* a + b of two u32, wrapping, from bit n on.
RECURSIVE add_u32(_, _, _, _)
add_u32(a, b, n, carry) ==
    IF n > 32
    THEN <<>>
    ELSE << (a[n] + b[n] + carry) % 2 >>
         \o add_u32(a, b, n + 1, (a[n] + b[n] + carry) \div 2)

\* A fix_qbits that leaves the levels as they are.
fix_qbits_unmapped(qbits) == qbits

\* (qbits1 >> 1) + (qbits1 ^ (qbits0 << 1))
fix_qbits(qbits) ==
    LET qbits0 == [n \in 1..32 |-> IF n % 2 = 1 THEN qbits[n] ELSE 0]
        qbits1 == [n \in 1..32 |-> IF n % 2 = 0 THEN qbits[n] ELSE 0]
        shr == [n \in 1..32 |-> IF n < 32 THEN qbits1[n + 1] ELSE 0]
        shl == [n \in 1..32 |-> IF n > 1 THEN qbits0[n - 1] ELSE 0]
        xor == [n \in 1..32 |-> (qbits1[n] + shl[n]) % 2]
    IN  add_u32(shr, xor, 1, 0)

\* if p[0] < p[1] { p.swap(0, 1) }
order_endpoints(p) == IF p[1] < p[2] THEN <<p[2], p[1]>> ELSE p

\* The four bytes of a u32 given by its bits, and the two of a 16-bit value.
u32_bytes(bits) ==
    [j \in 1..4 |->
        bits[8 * j - 7] + 2 * bits[8 * j - 6] + 4 * bits[8 * j - 5] + 8 * bits[8 * j - 4]
        + 16 * bits[8 * j - 3] + 32 * bits[8 * j - 2] + 64 * bits[8 * j - 1]
        + 128 * bits[8 * j]]

u16_bytes(v) == << v % 256, v \div 256 >>

\* compress_block_bc1_core: data[0] and data[1] as eight bytes, with the
\* endpoints and the levels of the last fast_quant.
compress_block_bc1_core(c0, c1, levels, dc, refined, refined_levels) ==
    LET p == order_endpoints(<< enc_rgb565(c0), enc_rgb565(c1) >>)
        first == fast_quant(p[1], p[2], levels)
        pr == order_endpoints(bc1_refine(first, dc, refined[1], refined[2]))
        last == fast_quant(pr[1], pr[2], refined_levels)
    IN  [ p |-> pr,
          qbits |-> last,
          data |-> u16_bytes(pr[1]) \o u16_bytes(pr[2]) \o u32_bytes(fix_qbits(last)) ]

CompressBlockBc1Core(c0, c1, levels, dc, refined, refined_levels) ==
    /\ fn_call = <<>>
    /\ fn_call' = [fn |-> "compress_block_bc1_core", c0 |-> c0, c1 |-> c1,
                   levels |-> levels, dc |-> dc, refined |-> refined,
                   refined_levels |-> refined_levels]
    /\ fn_result' = compress_block_bc1_core(c0, c1, levels, dc, refined, refined_levels)
    /\ UNCHANGED non_fn_vars

\* decode_block_bc1 on the eight bytes the encoder produced, into sixteen
\* pixels of pitch 16.
DecodeBc1 ==
    /\ fn_call # <<>>
    /\ fn_call.fn = "compress_block_bc1_core"
    /\ dec_pc = "idle"
    /\ \E res \in { run(decode_block_bc1(fn_result.data, 16), 1,
                        [k \in 1..64 |-> Unwritten],
                        [in_len |-> 8, pitch |-> 16, row_len |-> 16]) } :
        /\ dec_call' = [ decoder |-> "bc1", compressed_block |-> fn_result.data,
                         destination_pitch |-> 16, out_len |-> 64,
                         is_signed |-> FALSE ]
        /\ decompressed_block' = res.out
        /\ dec_fault' = res.fault
        /\ dec_pc' = IF res.fault = "" THEN "returned" ELSE "panic"
        /\ UNCHANGED non_decode_vars

\* Endpoint colours: black, white, red, two greys that quantize alike and
\* one that does not.
Bc1Colours ==
    { <<0, 0, 0>>, <<255, 255, 255>>, <<255, 0, 0>>, <<8, 8, 8>>, <<9, 9, 10>>,
      <<24, 36, 200>> }

\* Sixteen levels: constant ones, ramps in both directions, and mixes in
\* which neighbours would carry into each other.
Bc1Levels ==
    { [k \in 1..16 |-> 0], [k \in 1..16 |-> 1], [k \in 1..16 |-> 2], [k \in 1..16 |-> 3],
      [k \in 1..16 |-> (k - 1) % 4], [k \in 1..16 |-> 3 - ((k - 1) % 4)],
      <<3, 3, 1, 1, 2, 2, 0, 0, 3, 1, 3, 1, 2, 3, 2, 3>>,
      <<2, 0, 2, 1, 1, 3, 0, 3, 0, 0, 2, 2, 1, 2, 3, 1>> }

NextBc1 ==
    \/ \E c0 \in {<<0, 0, 0>>, <<255, 0, 0>>}, c1 \in {<<0, 0, 0>>, <<255, 255, 255>>},
          levels \in {[k \in 1..16 |-> 2], [k \in 1..16 |-> (k - 1) % 4]},
          dc \in {<<8, 8, 8>>, <<24, 36, 200>>},
          refined \in Bc1Colours \X Bc1Colours, refined_levels \in Bc1Levels :
           CompressBlockBc1Core(c0, c1, levels, dc, refined, refined_levels)
    \/ DecodeBc1

SpecBc1 == InitDecode /\ [][NextBc1]_vars

Bc1Encoded == fn_call # <<>> /\ fn_call.fn = "compress_block_bc1_core"

Bc1Decoded == Bc1Encoded /\ dec_pc = "returned"

\* The endpoint n (0 or 1) the block stores, and the selector of pixel k.
StoredEndpoint(n) == fn_result.data[2 * n + 1] + 256 * fn_result.data[2 * n + 2]

StoredSelector(k) == (fn_result.data[5 + k \div 4] \div Pow2(2 * (k % 4))) % 4

\* The level of pixel k (0..15) found by the last fast_quant.
LastLevel(k) == fn_result.qbits[2 * k + 1] + 2 * fn_result.qbits[2 * k + 2]

\* The decoded pixel k: red, green, blue, alpha.
DecodedPixel(k) ==
    SubSeq(decompressed_block, (k \div 4) * 16 + (k % 4) * 4 + 1,
           (k \div 4) * 16 + (k % 4) * 4 + 4)

\* C27: the BC1 encoder emits opaque-palette blocks.  For every input, also
\* after the refinement, the stored endpoints satisfy p[0] >= p[1]; the
\* selectors are those of the levels computed for the stored pair, level 0
\* standing for p[0]; with equal endpoints no pixel has selector 3; and
\* every pixel of the emitted block decodes with alpha 255.
C27_OpaqueBlocks ==
    /\ Bc1Encoded =>
          /\ StoredEndpoint(0) >= StoredEndpoint(1)
          /\ StoredEndpoint(0) = fn_result.p[1] /\ StoredEndpoint(1) = fn_result.p[2]
          /\ \A k \in 0..15 :
                /\ LastLevel(k) = 0 <=> StoredSelector(k) = 0
                /\ LastLevel(k) = 3 <=> StoredSelector(k) = 1
          /\ StoredEndpoint(0) = StoredEndpoint(1) =>
                \A k \in 0..15 : StoredSelector(k) # 3
    /\ Bc1Decoded => \A k \in 0..15 : DecodedPixel(k)[4] = 255

\* The refinement gave two equal endpoints for a block whose projected
\* levels were all 2: the block stores selector 0 everywhere and decodes
\* opaque.
C27_Witness ==
    /\ Bc1Decoded
    /\ fn_call.refined = << <<8, 8, 8>>, <<9, 9, 10>> >>
    /\ fn_call.refined_levels = [k \in 1..16 |-> 2]
    /\ StoredEndpoint(0) = StoredEndpoint(1)
    /\ \A k \in 0..15 : StoredSelector(k) = 0 /\ DecodedPixel(k)[4] = 255

\* The refinement gave black then white: the block stores white first.
C27_WitnessSwapped ==
    /\ Bc1Decoded
    /\ fn_call.refined = << <<0, 0, 0>>, <<255, 255, 255>> >>
    /\ StoredEndpoint(0) = 65535 /\ StoredEndpoint(1) = 0
    /\ fn_call.refined_levels = [k \in 1..16 |-> (k - 1) % 4]
    /\ DecodedPixel(0) = <<255, 255, 255, 255>>

\* C29: fix_qbits maps each of the sixteen 2-bit levels q on its own, with
\* no carry between pixels, to the wire selector 0->0, 1->2, 2->3, 3->1,
\* and the wire selector decodes to the palette entry at q/3 of the way
\* from endpoint p[0] to endpoint p[1].
C29_FixQbits ==
    /\ Bc1Encoded =>
          \A k \in 0..15 :
              StoredSelector(k) = <<0, 2, 3, 1>>[LastLevel(k) + 1]
    /\ (Bc1Decoded /\ StoredEndpoint(0) > StoredEndpoint(1)) =>
          \A k \in 0..15 :
              DecodedPixel(k) = Blend(StoredEndpoint(0), StoredEndpoint(1),
                                      3 - LastLevel(k), LastLevel(k))

\* A block from red to black with all four levels side by side, and with
\* threes next to ones: decoded.
C29_Witness ==
    /\ Bc1Decoded
    /\ StoredEndpoint(0) = 63488 /\ StoredEndpoint(1) = 0
    /\ fn_call.refined_levels = <<3, 3, 1, 1, 2, 2, 0, 0, 3, 1, 3, 1, 2, 3, 2, 3>>
    /\ StoredSelector(0) = 1 /\ StoredSelector(2) = 2 /\ StoredSelector(4) = 3
    /\ DecodedPixel(2) = <<170, 0, 0, 255>> /\ DecodedPixel(4) = <<85, 0, 0, 255>>

(***************************************************************************)
(* BitStream (decode/block.rs:1338-1380): a stream made from a block and   *)
(* read by a sequence of read_bits calls.  fn_call holds the block, the    *)
(* width of the last read and the number of bits read before it.           *)
(***************************************************************************)
StreamBlocks ==
    { <<1, 90, 165, 60, 255, 0, 36, 73, 146, 219, 109, 182, 27, 228, 85, 170>>,
      [k \in 1..16 |-> 255],
      <<128, 0, 0, 1, 0, 0, 0, 128, 1, 0, 0, 0, 0, 0, 0, 128>> }

\* Reads start while fewer than MaxReadPos bits have been read.
MaxReadPos == 150

BitStreamNew(data) ==
    /\ fn_call = <<>>
    /\ fn_call' = [fn |-> "new", data |-> data, num_bits |-> 0, pos |-> 0]
    /\ fn_result' = [bits |-> <<>>, bstream |-> BitStream_new(data)]
    /\ UNCHANGED non_fn_vars

ReadBits(num_bits) ==
    /\ fn_call # <<>>
    /\ fn_call.fn \in {"new", "read_bits"}
    /\ fn_call.pos + fn_call.num_bits < MaxReadPos
    /\ fn_call' = [fn |-> "read_bits", data |-> fn_call.data, num_bits |-> num_bits,
                   pos |-> fn_call.pos + fn_call.num_bits]
    /\ fn_result' = read_bits_u32(fn_result.bstream, num_bits)
    /\ UNCHANGED non_fn_vars

NextStream ==
    \/ \E data \in StreamBlocks : BitStreamNew(data)
    \/ \E num_bits \in 1..32 : ReadBits(num_bits)

SpecStream == InitDecode /\ [][NextStream]_vars

\* Bit b of the 128-bit little-endian block; zero from bit 128 on.
BlockBit(data, b) ==
    IF b >= 128 THEN 0 ELSE (data[b \div 8 + 1] \div Pow2(b % 8)) % 2

StreamRead == fn_call # <<>> /\ fn_call.fn = "read_bits"

\* C30: for any sequence of read_bits(n_i) calls with 1 <= n_i <= 32, the
\* i-th call returns exactly the bits [p_i, p_i + n_i) of the 128-bit
\* little-endian block, p_i being the sum of the earlier widths, and every
\* bit at position 128 or above reads as zero.
C30_ReadBits ==
    StreamRead =>
        /\ Len(fn_result.bits) = fn_call.num_bits
        /\ \A i \in 1..fn_call.num_bits :
              fn_result.bits[i] = BlockBit(fn_call.data, fn_call.pos + i - 1)

\* A 32-bit read across the boundary between low and high, returning a set
\* bit from each side.
C30_Witness ==
    /\ StreamRead
    /\ fn_call.num_bits = 32 /\ fn_call.pos = 49
    /\ fn_call.data[1] = 128
    /\ fn_result.bits[15] = 1 /\ fn_result.bits[16] = 1

\* A read that starts before bit 128 and ends after it.
C30_WitnessPastEnd ==
    /\ StreamRead
    /\ fn_call.pos = 120 /\ fn_call.num_bits = 17
    /\ fn_call.data[1] = 255
    /\ fn_result.bits = <<1, 1, 1, 1, 1, 1, 1, 1, 0, 0, 0, 0, 0, 0, 0, 0, 0>>

(***************************************************************************)
(* The mode and partition trials of the BC7 and BC6H encoders              *)
(* (encode/bc7.rs:540-817, encode/bc6h.rs:310-396).  The error block_quant *)
(* returns for a candidate is an input; an f32 error is a small integer,   *)
(* INFINITY or NaN, compared and added as f32 does.  The block the encoder *)
(* holds is named by the mode and the candidate that was coded, with the   *)
(* error that was measured for that candidate.                             *)
(***************************************************************************)
NaN == -1

INFINITY == 1000

\* a < b on f32: false when either side is NaN.
flt(a, b) == a # NaN /\ b # NaN /\ a < b

\* a + b on f32.
fadd(a, b) ==
    IF a = NaN \/ b = NaN THEN NaN
    ELSE IF a = INFINITY \/ b = INFINITY THEN INFINITY
    ELSE a + b

\* The encoder after new: data all zero, best_err infinite.
BlockCompressor_new(format, opaque_err) ==
    [ format |-> format, best_err |-> INFINITY, opaque_err |-> opaque_err,
      data |-> [mode |-> -1, cand |-> 0, err |-> INFINITY], calls |-> 0 ]

\* The loop `if err < best_err { best_.. = ..; best_err = err; }` over the
\* candidates k, k + 1, ..: the index and the error of the one kept.
RECURSIVE best_of(_, _, _)
best_of(errs, k, best) ==
    IF k > Len(errs)
    THEN best
    ELSE best_of(errs, k + 1,
                 IF flt(errs[k], best.err) THEN [err |-> errs[k], cand |-> k] ELSE best)

\* The error measured for candidate cand; candidate 0 is the default value
\* of the best_ variables, which no trial produced.
candidate_err(errs, cand) == IF cand = 0 THEN NaN ELSE errs[cand]

\* A commit that codes the best candidate of the call whatever its error.
commit_unconditional(self, mode, errs, best, extra) ==
    [self EXCEPT !.best_err = fadd(best.err, extra),
                 !.data = [mode |-> mode, cand |-> best.cand,
                           err |-> fadd(candidate_err(errs, best.cand), extra)]]

\* if best_err < self.best_err { self.best_err = best_err; self.code(..) }
\* with extra added to the error first (the opaque_err of modes 0 to 3).
commit(self, mode, errs, best, extra) ==
    IF flt(fadd(best.err, extra), self.best_err)
    THEN [self EXCEPT !.best_err = fadd(best.err, extra),
                      !.data = [mode |-> mode, cand |-> best.cand,
                                err |-> fadd(candidate_err(errs, best.cand), extra)]]
    ELSE self

\* bc7_enc_mode01237: the partition trials, then the refinements of the
\* best one, all against a local best_err that starts infinite.
bc7_enc_mode01237(self, mode, part_errs, refine_errs) ==
    IF part_errs = <<>>
    THEN self
    ELSE commit(self, mode, part_errs \o refine_errs,
                best_of(part_errs \o refine_errs, 1, [err |-> INFINITY, cand |-> 0]),
                IF mode # 7 THEN self.opaque_err ELSE 0)

\* bc7_enc_mode45: the mode 4 candidates, a commit, the mode 5 candidates,
\* a commit; the local best_err starts at self.best_err and best_candidate
\* is carried from the first half into the second.
bc7_enc_mode45(self, errs4, errs5) ==
    LET best4 == best_of(errs4, 1, [err |-> self.best_err, cand |-> 0])
        after4 == commit(self, 4, errs4 \o errs5, best4, 0)
        best5 == best_of(errs4 \o errs5, Len(errs4) + 1, best4)
    IN  commit(after4, 5, errs4 \o errs5, best5, 0)

\* bc7_enc_mode6 and bc6h_enc_1p: one candidate, the last refinement.
bc7_enc_mode6(self, err) == commit(self, 6, <<err>>, [err |-> err, cand |-> 1], 0)

bc6h_enc_1p(self, mode, err) == commit(self, mode, <<err>>, [err |-> err, cand |-> 1], 0)

bc6h_enc_2p_list(self, mode, part_errs, refine_errs) ==
    IF part_errs = <<>>
    THEN self
    ELSE commit(self, mode, part_errs \o refine_errs,
                best_of(part_errs \o refine_errs, 1, [err |-> INFINITY, cand |-> 0]), 0)

Errs == {NaN, 1, 2, 3}

ErrLists(n) == UNION { [1..m -> Errs] : m \in 0..n }

\* Trials run while fewer than MaxTrialCalls have been made for the block.
MaxTrialCalls == 3

NewBlockCompressor(format, opaque_err) ==
    /\ fn_call = <<>>
    /\ fn_call' = [fn |-> "new", mode |-> -1, errs |-> <<>>]
    /\ fn_result' = BlockCompressor_new(format, opaque_err)
    /\ UNCHANGED non_fn_vars

Trial(format, fn, mode, errs, after) ==
    /\ fn_call # <<>>
    /\ fn_call.fn \in {"new", "bc7_enc_mode01237", "bc7_enc_mode45", "bc7_enc_mode6",
                        "bc6h_enc_2p_list", "bc6h_enc_1p"}
    /\ fn_result.format = format
    /\ fn_result.calls < MaxTrialCalls
    /\ fn_call' = [fn |-> fn, mode |-> mode, errs |-> errs]
    /\ fn_result' = [after EXCEPT !.calls = fn_result.calls + 1]
    /\ UNCHANGED non_fn_vars

Bc7EncMode01237(mode, part_errs, refine_errs) ==
    Trial("BC7", "bc7_enc_mode01237", mode, part_errs \o refine_errs,
          bc7_enc_mode01237(fn_result, mode, part_errs, refine_errs))

Bc7EncMode45(errs4, errs5) ==
    Trial("BC7", "bc7_enc_mode45", 4, errs4 \o errs5, bc7_enc_mode45(fn_result, errs4, errs5))

Bc7EncMode6(err) ==
    Trial("BC7", "bc7_enc_mode6", 6, <<err>>, bc7_enc_mode6(fn_result, err))

Bc6hEnc2pList(mode, part_errs, refine_errs) ==
    Trial("BC6H", "bc6h_enc_2p_list", mode, part_errs \o refine_errs,
          bc6h_enc_2p_list(fn_result, mode, part_errs, refine_errs))

Bc6hEnc1p(mode, err) ==
    Trial("BC6H", "bc6h_enc_1p", mode, <<err>>, bc6h_enc_1p(fn_result, mode, err))

NextTrials ==
    \/ \E opaque_err \in {0, 1} : NewBlockCompressor("BC7", opaque_err)
    \/ NewBlockCompressor("BC6H", 0)
    \/ \E mode \in {1, 7}, part_errs \in ErrLists(2), refine_errs \in ErrLists(1) :
           Bc7EncMode01237(mode, part_errs, refine_errs)
    \/ \E errs4 \in [1..2 -> Errs], errs5 \in [1..1 -> Errs] : Bc7EncMode45(errs4, errs5)
    \/ \E err \in Errs : Bc7EncMode6(err)
    \/ \E mode \in {9}, part_errs \in ErrLists(2), refine_errs \in ErrLists(1) :
           Bc6hEnc2pList(mode, part_errs, refine_errs)
    \/ \E mode \in {10}, err \in Errs : Bc6hEnc1p(mode, err)

SpecTrials == InitDecode /\ [][NextTrials]_vars

trial_step == <<fn_call, fn_result>>

\* C26: over the whole sequence of mode and partition trials for one block,
\* BC6H and BC7, best_err never increases; the stored block is always the
\* encoding of the candidate whose error equals the current best_err; and
\* a candidate replaces the stored block only when its error is strictly
\* smaller than best_err was.
C26_BestCandidate ==
    [][ fn_call # <<>> =>
          /\ fn_result'.best_err # NaN
          /\ fn_result'.best_err <= fn_result.best_err
          /\ fn_result'.data.mode # -1 => fn_result'.data.err = fn_result'.best_err
          /\ fn_result'.data.mode = -1 => fn_result'.best_err = INFINITY
          /\ fn_result'.data # fn_result.data =>
                /\ fn_result'.data.err # NaN
                /\ fn_result'.data.err < fn_result.best_err
                /\ fn_result'.data.cand # 0
          /\ fn_result'.data = fn_result.data => fn_result'.best_err = fn_result.best_err
      ]_trial_step

\* The third trial of a BC7 block: the block holds a mode 5 candidate of
\* error 1 that replaced an earlier one.
C26_Witness ==
    /\ fn_call # <<>> /\ fn_call.fn = "bc7_enc_mode45"
    /\ fn_result.calls = 3
    /\ fn_call.errs = <<3, 2, 1>>
    /\ fn_result.data = [mode |-> 5, cand |-> 3, err |-> 1]
    /\ fn_result.best_err = 1

\* A BC6H trial whose candidates did not beat the block held: the mode 10
\* block of error 1 stays.
C26_WitnessKept ==
    /\ fn_call # <<>> /\ fn_call.fn = "bc6h_enc_2p_list"
    /\ fn_call.errs = <<1, 2, 1>>
    /\ fn_result.data = [mode |-> 10, cand |-> 1, err |-> 1]
    /\ fn_result.best_err = 1

(***************************************************************************)
(* The coding of BC7 blocks (encode/bc7.rs:381-515 with the helpers of     *)
(* encode/common.rs).  data: [u32; 5] is the sequence of its 160 bits, bit *)
(* 0 of data[0] first; a u32 of a table is the pair of its high and low    *)
(* 16 bits; a qblock is the sequence of its sixteen nibbles, pixel 0       *)
(* first.  The quantized endpoints and selectors are inputs within the     *)
(* ranges the clamps of ep_quant and block_quant leave.                    *)
(***************************************************************************)
get_unquant_value(bits, index) ==
    IF bits = 2 THEN <<0, 21, 43, 64, 0, 0, 0, 0, 0, 0, 0, 0, 0, 0, 0, 0>>[index + 1]
    ELSE IF bits = 3 THEN <<0, 9, 18, 27, 37, 46, 55, 64, 0, 0, 0, 0, 0, 0, 0, 0>>[index + 1]
    ELSE <<0, 4, 9, 13, 17, 21, 26, 30, 34, 38, 43, 47, 51, 55, 60, 64>>[index + 1]

PATTERN_TABLE ==
    <<
       <<20560, 20560>>, <<16448, 16448>>, <<21588, 21588>>, <<21584, 20544>>,
       <<20544, 16384>>, <<21844, 21584>>, <<21844, 20544>>, <<21584, 16384>>,
       <<20544, 0>>, <<21845, 21584>>, <<21844, 16384>>, <<21568, 0>>,
       <<21845, 21568>>, <<21845, 0>>, <<21845, 21760>>, <<21760, 0>>,
       <<21781, 256>>, <<0, 16468>>, <<5377, 0>>, <<64, 20564>>,
       <<0, 16464>>, <<5381, 256>>, <<1281, 0>>, <<16464, 20564>>,
       <<64, 16464>>, <<1281, 256>>, <<5140, 5140>>, <<1300, 5200>>,
       <<277, 21568>>, <<85, 21760>>, <<5377, 16468>>, <<1345, 16720>>,
       <<17476, 17476>>, <<21760, 21760>>, <<4420, 4420>>, <<1285, 20560>>,
       <<1360, 1360>>, <<4369, 17476>>, <<16660, 16660>>, <<17425, 4420>>,
       <<5381, 20564>>, <<261, 20544>>, <<1284, 4176>>, <<1349, 20816>>,
       <<5185, 16660>>, <<20485, 1360>>, <<16705, 5140>>, <<20, 5120>>,
       <<4, 5380>>, <<16, 21520>>, <<4180, 4096>>, <<1045, 1024>>,
       <<20545, 1300>>, <<16645, 5200>>, <<1345, 20500>>, <<5125, 16720>>,
       <<16645, 1300>>, <<16720, 20500>>, <<16385, 5460>>, <<21525, 320>>,
       <<20560, 21760>>, <<85, 20560>>, <<5397, 4112>>, <<21588, 1028>>,
       <<43624, 20560>>, <<27226, 20544>>, <<23130, 16896>>, <<21584, 41128>>,
       <<42405, 0>>, <<41120, 20560>>, <<21845, 41120>>, <<23130, 20560>>,
       <<43605, 0>>, <<43605, 21760>>, <<43690, 21760>>, <<37008, 37008>>,
       <<38036, 38036>>, <<42148, 42148>>, <<43429, 37968>>, <<10762, 16976>>,
       <<42388, 20544>>, <<2626, 20564>>, <<42405, 42240>>, <<21920, 41120>>,
       <<43176, 21588>>, <<27242, 16448>>, <<42148, 20480>>, <<6682, 1280>>,
       <<80, 42148>>, <<43685, 37008>>, <<5225, 26900>>, <<26985, 5120>>,
       <<41093, 34208>>, <<43650, 5140>>, <<20644, 42064>>, <<27226, 512>>,
       <<43429, 32768>>, <<20624, 41128>>, <<43168, 36944>>, <<9252, 9252>>,
       <<170, 21760>>, <<9362, 18724>>, <<9289, 37412>>, <<20645, 2640>>,
       <<20490, 42320>>, <<43690, 17476>>, <<26214, 0>>, <<42400, 42400>>,
       <<20640, 20640>>, <<26920, 26920>>, <<17578, 43588>>, <<26214, 26112>>,
       <<43588, 17476>>, <<21672, 21672>>, <<38272, 38272>>, <<38550, 38400>>,
       <<43092, 21672>>, <<32917, 38272>>, <<43540, 5140>>, <<38550, 0>>,
       <<43690, 5140>>, <<41040, 20640>>, <<41125, 42400>>, <<38400, 0>>,
       <<16512, 16512>>, <<43432, 43432>>, <<43690, 43588>>, <<10826, 21076>>
    >>

PATTERN_MASK_TABLE ==
    <<
       <<52428, 13107>>, <<34952, 30583>>, <<61166, 4369>>, <<60616, 4919>>,
       <<51328, 14207>>, <<65260, 275>>, <<65224, 311>>, <<60544, 4991>>,
       <<51200, 14335>>, <<65516, 19>>, <<65152, 383>>, <<59392, 6143>>,
       <<65512, 23>>, <<65280, 255>>, <<65520, 15>>, <<61440, 4095>>,
       <<63248, 2287>>, <<142, 65393>>, <<28928, 36607>>, <<2254, 63281>>,
       <<140, 65395>>, <<29456, 36079>>, <<12544, 52991>>, <<36046, 29489>>,
       <<2188, 63347>>, <<12560, 52975>>, <<26214, 39321>>, <<13932, 51603>>,
       <<6120, 59415>>, <<4080, 61455>>, <<29070, 36465>>, <<14748, 50787>>,
       <<43690, 21845>>, <<61680, 3855>>, <<23130, 42405>>, <<13260, 52275>>,
       <<15420, 50115>>, <<21930, 43605>>, <<38550, 26985>>, <<42330, 23205>>,
       <<29646, 35889>>, <<5064, 60471>>, <<12876, 52659>>, <<15324, 50211>>,
       <<27030, 38505>>, <<49980, 15555>>, <<39270, 26265>>, <<1632, 63903>>,
       <<626, 64909>>, <<1252, 64283>>, <<20032, 45503>>, <<10016, 55519>>,
       <<51510, 14025>>, <<37740, 27795>>, <<14790, 50745>>, <<25500, 40035>>,
       <<37686, 27849>>, <<40134, 25401>>, <<33150, 32385>>, <<59160, 6375>>,
       <<52464, 13071>>, <<4044, 61491>>, <<30532, 35003>>, <<60962, 4573>>,
       <<2252, 307>>, <<36040, 55>>, <<52352, 111>>, <<60416, 4913>>,
       <<13056, 255>>, <<204, 13107>>, <<65280, 51>>, <<52428, 51>>,
       <<3840, 255>>, <<4080, 15>>, <<240, 15>>, <<17476, 13107>>,
       <<26214, 4369>>, <<8738, 4369>>, <<4972, 19>>, <<140, 35939>>,
       <<14024, 311>>, <<2254, 50737>>, <<13104, 15>>, <<61440, 819>>,
       <<238, 4369>>, <<34952, 119>>, <<8896, 4415>>, <<17456, 35023>>,
       <<3106, 62225>>, <<836, 51>>, <<27030, 36873>>, <<39264, 159>>,
       <<816, 13379>>, <<102, 1689>>, <<49708, 12563>>, <<35840, 239>>,
       <<4864, 127>>, <<50176, 13105>>, <<76, 4915>>, <<8738, 39321>>,
       <<240, 61455>>, <<9362, 37449>>, <<10562, 37929>>, <<49932, 12483>>,
       <<49212, 15363>>, <<170, 85>>, <<43520, 255>>, <<12336, 771>>,
       <<49344, 13107>>, <<37008, 2313>>, <<40970, 20485>>, <<43680, 15>>,
       <<2730, 1365>>, <<57568, 4369>>, <<28784, 1799>>, <<26208, 15>>,
       <<3808, 4369>>, <<1904, 28679>>, <<1638, 2457>>, <<26112, 255>>,
       <<102, 153>>, <<3264, 13107>>, <<816, 12291>>, <<24576, 4095>>,
       <<32896, 30583>>, <<4112, 257>>, <<10, 5>>, <<2254, 33825>>
    >>

SKIP_TABLE ==
    <<
       240, 240, 240, 240, 240, 240, 240, 240, 240, 240, 240, 240, 240, 240, 240, 240,
       240, 32, 128, 32, 32, 128, 128, 240, 32, 128, 32, 32, 128, 128, 32, 32,
       240, 240, 96, 128, 32, 128, 240, 240, 32, 128, 32, 32, 32, 240, 240, 96,
       96, 32, 96, 128, 240, 240, 32, 32, 240, 240, 240, 240, 240, 32, 32, 240,
       63, 56, 248, 243, 143, 63, 243, 248, 143, 143, 111, 111, 111, 95, 63, 56,
       63, 56, 143, 243, 63, 56, 111, 168, 83, 143, 134, 106, 143, 95, 250, 248,
       143, 243, 63, 90, 106, 168, 137, 250, 246, 63, 248, 95, 243, 246, 246, 248,
       63, 243, 95, 95, 95, 143, 95, 175, 95, 175, 143, 223, 243, 207, 63, 56
    >>

\* The subset of pixel k in get_pattern(part_id): (pattern >> (2 * k)) & 3.
get_pattern(part_id, k) ==
    (PATTERN_TABLE[part_id + 1][IF k < 8 THEN 2 ELSE 1] \div Pow2(2 * (k % 8))) % 4

\* get_pattern_mask as its sixteen low bits, pixel 0 first; the bits above
\* them are not read by bc7_code_qblock.
get_pattern_mask(part_id, j) ==
    [k \in 1..16 |->
        LET mask0 == (PATTERN_MASK_TABLE[part_id + 1][2] \div Pow2(k - 1)) % 2
            mask1 == (PATTERN_MASK_TABLE[part_id + 1][1] \div Pow2(k - 1)) % 2
        IN  IF j = 2 THEN (1 - mask0) * (1 - mask1)
            ELSE IF j = 0 THEN mask0 ELSE mask1]

get_skips(part_id) ==
    << 0, SKIP_TABLE[part_id + 1] \div 16, SKIP_TABLE[part_id + 1] % 16 >>

\* Bit i of a u32 below 2^31.
bit_of(v, i) == IF i > 30 THEN 0 ELSE (v \div Pow2(i)) % 2

\* self.data = [0; 5]; pos = 0.  fits records whether every value given to
\* put_bits was below 2^bits, dropped the bits data_shl_1bit_from deleted.
ClearedData ==
    [ data |-> [n \in 1..160 |-> 0], pos |-> 0, fits |-> TRUE, dropped |-> <<>> ]

\* data[pos / 32] |= v << (pos % 32), and the part of v beyond the word
\* goes into the next word only if pos % 32 + bits > 32.
put_bits(state, bits, v) ==
    CHOOSE after \in
        { [st EXCEPT
             !.data = [n \in 1..160 |->
                         IF /\ n - 1 >= st.pos
                            /\ \/ (n - 1) \div 32 = st.pos \div 32
                               \/ /\ (n - 1) \div 32 = st.pos \div 32 + 1
                                  /\ (st.pos % 32) + bits > 32
                            /\ bit_of(v, n - 1 - st.pos) = 1
                         THEN 1
                         ELSE st.data[n]],
             !.pos = st.pos + bits,
             !.fits = st.fits /\ v < Pow2(bits)] : st \in {state} } : TRUE

\* put_bits for the pairs <<bits, v>> of items, in order.
RECURSIVE put_all(_, _, _)
put_all(st, items, k) ==
    IF k > Len(items)
    THEN st
    ELSE put_all(put_bits(st, items[k][1], items[k][2]), items, k + 1)

\* data_shl_1bit_from: the bits of the word of from_bits below
\* from_bits - 1 stay (mask), every bit above moves down by one; nothing
\* happens from 128 on.  from_bits is at least 90 for the skips of the
\* table.
data_shl_1bit_from(state, from_bits) ==
    LET first == IF from_bits < 96 THEN 64 ELSE 96
        lost == IF from_bits - 1 < first THEN first ELSE from_bits - 1
    IN  IF from_bits >= 128
        THEN state
        ELSE CHOOSE after \in
                 { [st EXCEPT
                      !.data = [n \in 1..160 |->
                                  IF \/ n - 1 < first
                                     \/ (n - 1 < first + 32 /\ n - 1 <= from_bits - 2)
                                  THEN st.data[n]
                                  ELSE IF n < 160 THEN st.data[n + 1] ELSE 0],
                      !.dropped = Append(st.dropped, st.data[lost + 1])] :
                   st \in {state} } : TRUE

\* A bc7_code_qblock that writes the first pixel with all its bits.
bc7_code_qblock_full_anchor(st, qblock, bits, flips) ==
    put_all(st, [k \in 1..16 |->
                   << bits,
                      IF flips[k] = 1 THEN (Pow2(bits) - 1) - qblock[k] ELSE qblock[k] >>], 1)

\* bc7_code_qblock: the selector of each pixel, inverted where flips has the
\* pixel's bit, the first pixel with bits - 1 bits.
bc7_code_qblock(st, qblock, bits, flips) ==
    put_all(st, [k \in 1..16 |->
                   << IF k = 1 THEN bits - 1 ELSE bits,
                      IF flips[k] = 1 THEN (Pow2(bits) - 1) - qblock[k] ELSE qblock[k] >>], 1)

RECURSIVE shift_out(_, _, _)
shift_out(st, froms, k) ==
    IF k > Len(froms) THEN st ELSE shift_out(data_shl_1bit_from(st, froms[k]), froms, k + 1)

bc7_code_adjust_skip_mode01237(st, mode, part_id) ==
    LET pairs == IF mode \in {0, 2} THEN 3 ELSE 2
        bits == IF mode \in {0, 1} THEN 3 ELSE 2
        found == get_skips(part_id)
        skips == IF pairs > 2 /\ found[2] < found[3]
                 THEN <<found[1], found[3], found[2]>> ELSE found
    IN  shift_out(st, [n \in 1..(pairs - 1) |->
                         128 + (pairs - 1) - (15 - skips[n + 1]) * bits], 1)

\* c - value on the eight nibbles of a u32, wrapping.
RECURSIVE sub_nibbles(_, _, _, _)
sub_nibbles(c, value, k, borrow) ==
    IF k > Len(value)
    THEN <<>>
    ELSE << (c - value[k] - borrow + 16) % 16 >>
         \o sub_nibbles(c, value, k + 1, IF c - value[k] - borrow < 0 THEN 1 ELSE 0)

\* bc7_code_apply_swap_mode456: when the first selector is in the upper
\* half, qep[p] and qep[channels + p] change places and each word of qblock
\* becomes 0x11111111 * (levels - 1) - word.
bc7_code_apply_swap_mode456(qep, channels, qblock, bits) ==
    IF qblock[1] >= Pow2(bits) \div 2
    THEN [ qep |-> [i \in 1..Len(qep) |->
                      IF i <= channels THEN qep[i + channels]
                      ELSE IF i <= 2 * channels THEN qep[i - channels] ELSE qep[i]],
           qblock |-> sub_nibbles(Pow2(bits) - 1, SubSeq(qblock, 1, 8), 1, 0)
                      \o sub_nibbles(Pow2(bits) - 1, SubSeq(qblock, 9, 16), 1, 0) ]
    ELSE [ qep |-> qep, qblock |-> qblock ]

\* A swap of the endpoints that flips no selector.
bc7_code_apply_swap_mode01237_no_flips(qep, qblock, mode, part_id) ==
    LET bits == IF mode \in {0, 1} THEN 3 ELSE 2
        pairs == IF mode \in {0, 2} THEN 3 ELSE 2
        swapped(j) == qblock[get_skips(part_id)[j + 1] + 1] >= Pow2(bits) \div 2
    IN  [ qep |-> [i \in 1..24 |->
                     IF (i - 1) \div 8 < pairs /\ swapped((i - 1) \div 8)
                     THEN qep[8 * ((i - 1) \div 8) + ((((i - 1) % 8) + 4) % 8) + 1]
                     ELSE qep[i]],
          flips |-> [k \in 1..16 |-> 0] ]

\* bc7_code_apply_swap_mode01237: for each subset whose anchor selector is
\* in the upper half, the two endpoints change places and the subset's
\* pixels enter flips.
bc7_code_apply_swap_mode01237(qep, qblock, mode, part_id) ==
    LET bits == IF mode \in {0, 1} THEN 3 ELSE 2
        pairs == IF mode \in {0, 2} THEN 3 ELSE 2
        swapped(j) == qblock[get_skips(part_id)[j + 1] + 1] >= Pow2(bits) \div 2
    IN  [ qep |-> [i \in 1..24 |->
                     IF (i - 1) \div 8 < pairs /\ swapped((i - 1) \div 8)
                     THEN qep[8 * ((i - 1) \div 8) + ((((i - 1) % 8) + 4) % 8) + 1]
                     ELSE qep[i]],
          flips |-> [k \in 1..16 |->
                       IF \E j \in 0..(pairs - 1) :
                              swapped(j) /\ get_pattern_mask(part_id, j)[k] = 1
                       THEN 1 ELSE 0] ]

bc7_code_mode01237(qep, qblock, part_id, mode) ==
    LET bits == IF mode \in {0, 1} THEN 3 ELSE 2
        pairs == IF mode \in {0, 2} THEN 3 ELSE 2
        channels == IF mode = 7 THEN 4 ELSE 3
        swap == bc7_code_apply_swap_mode01237(qep, qblock, mode, part_id)
        endpoint(n) ==
            LET v == swap.qep[((n - 1) % (pairs * 2)) * 4 + ((n - 1) \div (pairs * 2)) + 1]
            IN  IF mode = 0 THEN <<4, v \div 2>>
                ELSE IF mode = 1 THEN <<6, v \div 2>>
                ELSE IF mode = 2 THEN <<5, v>>
                ELSE IF mode = 3 THEN <<7, v \div 2>>
                ELSE <<5, v \div 2>>
        p_bits == IF mode = 1
                  THEN [j \in 1..2 |-> <<1, swap.qep[(j - 1) * 8 + 1] % 2>>]
                  ELSE IF mode \in {0, 3, 7}
                  THEN [j \in 1..(pairs * 2) |-> <<1, swap.qep[(j - 1) * 4 + 1] % 2>>]
                  ELSE <<>>
        head == put_all(ClearedData,
                        << <<mode + 1, Pow2(mode)>>,
                           IF mode = 0 THEN <<4, part_id % 16>> ELSE <<6, part_id % 64>> >>
                        \o [n \in 1..(channels * pairs * 2) |-> endpoint(n)]
                        \o p_bits, 1)
    IN  bc7_code_adjust_skip_mode01237(
            bc7_code_qblock(head, qblock, bits, swap.flips), mode, part_id)

bc7_code_mode45(params, mode) ==
    LET bits == 2
        abits == IF mode = 4 THEN 3 ELSE 2
        epbits == IF mode = 4 THEN 5 ELSE 7
        aepbits == IF mode = 4 THEN 6 ELSE 8
        first == IF params.swap = 0
                 THEN bc7_code_apply_swap_mode456(params.qep, 4, params.qblock, bits)
                 ELSE bc7_code_apply_swap_mode456(params.aqep, 1, params.aqblock, bits)
        second == IF params.swap = 0
                  THEN bc7_code_apply_swap_mode456(params.aqep, 1, params.aqblock, abits)
                  ELSE bc7_code_apply_swap_mode456(params.qep, 4, params.qblock, abits)
        qep == IF params.swap = 0 THEN first.qep ELSE second.qep
        aqep == IF params.swap = 0 THEN second.qep ELSE first.qep
        head == put_all(ClearedData,
                        << <<mode + 1, Pow2(mode)>>, <<2, (params.rotation + 1) % 4>> >>
                        \o (IF mode = 4 THEN << <<1, params.swap>> >> ELSE <<>>)
                        \o [n \in 1..6 |->
                              <<epbits, qep[((n - 1) % 2) * 4 + ((n - 1) \div 2) + 1]>>]
                        \o << <<aepbits, aqep[1]>>, <<aepbits, aqep[2]>> >>, 1)
    IN  bc7_code_qblock(bc7_code_qblock(head, first.qblock, bits, [k \in 1..16 |-> 0]),
                        second.qblock, abits, [k \in 1..16 |-> 0])

bc7_code_mode6(qep, qblock) ==
    LET swap == bc7_code_apply_swap_mode456(qep, 4, qblock, 4)
        head == put_all(ClearedData,
                        << <<7, 64>> >>
                        \o [n \in 1..8 |->
                              <<7, swap.qep[((n - 1) % 2) * 4 + ((n - 1) \div 2) + 1] \div 2>>]
                        \o << <<1, swap.qep[1] % 2>>, <<1, swap.qep[5] % 2>> >>, 1)
    IN  bc7_code_qblock(head, swap.qblock, 4, [k \in 1..16 |-> 0])

\* store_data of the BC7 encoder: data[..4] as little-endian bytes.
bc7_store_data(data) ==
    [b \in 1..16 |->
        data[8 * b - 7] + 2 * data[8 * b - 6] + 4 * data[8 * b - 5] + 8 * data[8 * b - 4]
        + 16 * data[8 * b - 3] + 32 * data[8 * b - 2] + 64 * data[8 * b - 1]
        + 128 * data[8 * b]]

unpack_to_byte(v, bits) ==
    v * Pow2(8 - bits) + ((v * Pow2(8 - bits)) \div Pow2(bits))

\* ep_dequant: the byte a quantized endpoint value stands for.
ep_dequant(v, mode) ==
    IF mode \in {3, 6} THEN v
    ELSE IF mode \in {1, 5} THEN unpack_to_byte(v, 7)
    ELSE IF mode \in {0, 2, 4} THEN unpack_to_byte(v, 5)
    ELSE unpack_to_byte(v, 6)

\* The palette entry block_quant measures a selector against:
\* ((64 - w) * ep_a + w * ep_b + 32) / 64.
palette_entry(ep_a, ep_b, bits, q) ==
    ((64 - get_unquant_value(bits, q)) * ep_a + get_unquant_value(bits, q) * ep_b + 32) \div 64

\* The bits of a quantized colour endpoint value of a mode, p-bit included.
qep_bits(mode) ==
    IF mode \in {0, 2, 4} THEN 5 ELSE IF mode = 7 THEN 6 ELSE IF mode \in {1, 5} THEN 7 ELSE 8

\* Quantized endpoints as ep_quant leaves them: 24 values within the mode's
\* range; where the mode has p-bits the values of one endpoint (mode 1: of
\* one pair) have the same lowest bit.  Two mixed sets and the largest
\* values.
Qeps(mode) ==
    { [i \in 1..24 |->
         IF mode \in {2, 4, 5}
         THEN (IF seed = 2 THEN Pow2(qep_bits(mode)) - 1
               ELSE (11 * i + 7 * seed + 3) % Pow2(qep_bits(mode)))
         ELSE 2 * (IF seed = 2 THEN Pow2(qep_bits(mode) - 1) - 1
                   ELSE (11 * i + 7 * seed + 3) % Pow2(qep_bits(mode) - 1))
              + (IF mode = 1 THEN ((i - 1) \div 8 + seed) % 2
                 ELSE ((i - 1) \div 4 + seed) % 2)] : seed \in 0..2 }

\* Selectors as block_quant leaves them, 0 .. levels - 1: all at the top,
\* and two mixes that depend on the partition.
QBlocks(bits, part) ==
    { [k \in 1..16 |-> Pow2(bits) - 1],
      [k \in 1..16 |-> (5 * (k - 1) + part) % Pow2(bits)],
      [k \in 1..16 |-> (7 * (k - 1) + 3 * part + Pow2(bits) - 1) % Pow2(bits)] }

Bc7Coded(st) ==
    [ data |-> st.data, pos |-> st.pos, fits |-> st.fits, dropped |-> st.dropped,
      block |-> bc7_store_data(st.data) ]

CodeMode01237(mode, part_id, qep, qblock) ==
    /\ fn_call = <<>>
    /\ fn_call' = [fn |-> "bc7_code_mode01237", mode |-> mode, part_id |-> part_id,
                   qep |-> qep, qblock |-> qblock, aqep |-> <<0, 0>>,
                   aqblock |-> qblock, rotation |-> 3, swap |-> 0]
    /\ \E st \in { bc7_code_mode01237(qep, qblock, part_id, mode) } :
           fn_result' = Bc7Coded(st)
    /\ UNCHANGED non_fn_vars

CodeMode45(mode, qep, qblock, aqep, aqblock, rotation, swap) ==
    /\ fn_call = <<>>
    /\ fn_call' = [fn |-> "bc7_code_mode45", mode |-> mode, part_id |-> 0,
                   qep |-> qep, qblock |-> qblock, aqep |-> aqep,
                   aqblock |-> aqblock, rotation |-> rotation, swap |-> swap]
    /\ \E st \in { bc7_code_mode45([qep |-> SubSeq(qep, 1, 8), qblock |-> qblock,
                                    aqep |-> aqep, aqblock |-> aqblock,
                                    rotation |-> rotation, swap |-> swap], mode) } :
           fn_result' = Bc7Coded(st)
    /\ UNCHANGED non_fn_vars

CodeMode6(qep, qblock) ==
    /\ fn_call = <<>>
    /\ fn_call' = [fn |-> "bc7_code_mode6", mode |-> 6, part_id |-> 0,
                   qep |-> qep, qblock |-> qblock, aqep |-> <<0, 0>>,
                   aqblock |-> qblock, rotation |-> 3, swap |-> 0]
    /\ \E st \in { bc7_code_mode6(qep, qblock) } : fn_result' = Bc7Coded(st)
    /\ UNCHANGED non_fn_vars

\* get_mode_prefix of the BC6H encoder.
MODE_PREFIX_TABLE == <<0, 1, 2, 6, 10, 14, 18, 22, 26, 30, 3, 7, 11, 15>>

get_mode_prefix(mode) == MODE_PREFIX_TABLE[mode + 1]

bit_at(v, pos) == (v \div Pow2(pos)) % 2

\* bc6h_pack for the two modes that store the endpoints as they are: mode 9
\* (two regions, 6 bits) and mode 10 (one region, 10 bits).  qep[i * 4 + p]
\* is channel p of endpoint i.
bc6h_pack(qep, mode) ==
    LET q(n) == qep[n + 1]
        pqep0 == q(0) + bit_at(q(12 + 1), 4) * 64 + bit_at(q(12 + 2), 0) * 128
                 + bit_at(q(12 + 2), 1) * 256 + bit_at(q(8 + 2), 4) * 512
        pqep1 == q(1) + bit_at(q(8 + 1), 5) * 64 + bit_at(q(8 + 2), 5) * 128
                 + bit_at(q(12 + 2), 2) * 256 + bit_at(q(8 + 1), 4) * 512
        pqep2 == q(2) + bit_at(q(12 + 1), 5) * 64 + bit_at(q(12 + 2), 3) * 128
                 + bit_at(q(12 + 2), 5) * 256 + bit_at(q(12 + 2), 4) * 512
        pqep4 == q(4) + (q(8 + 1) % 16) * 64
        pqep5 == q(5) + (q(12 + 1) % 16) * 64
        pqep6 == q(6) + (q(8 + 2) % 16) * 64
    IN  IF mode = 9
        THEN << get_mode_prefix(9),
                pqep2 * Pow2(20) + pqep1 * Pow2(10) + pqep0,
                pqep6 * Pow2(20) + pqep5 * Pow2(10) + pqep4,
                q(12) * 64 + q(8) >>
        ELSE << get_mode_prefix(10),
                q(2) * Pow2(20) + q(1) * Pow2(10) + q(0),
                q(6) * Pow2(20) + q(5) * Pow2(10) + q(4),
                0 >>

\* bc6h_code_2p: the swap of bc7 mode 1, the packed header, the partition,
\* the selectors with three bits, and the anchors of bc7 mode 1.
bc6h_code_2p(qep, qblock, part_id, mode) ==
    LET swap == bc7_code_apply_swap_mode01237(qep, qblock, 1, part_id)
        packed == bc6h_pack(swap.qep, mode)
        head == put_all(ClearedData,
                        << <<5, packed[1]>>, <<30, packed[2]>>, <<30, packed[3]>>,
                           <<12, packed[4]>>, <<5, part_id>> >>, 1)
    IN  bc7_code_adjust_skip_mode01237(
            bc7_code_qblock(head, qblock, 3, swap.flips), 1, part_id)

\* bc6h_code_1p: the swap of the single region, the packed header, and the
\* selectors with four bits.
bc6h_code_1p(qep, qblock, mode) ==
    LET swap == bc7_code_apply_swap_mode456(qep, 4, qblock, 4)
        packed == bc6h_pack(swap.qep, mode)
        head == put_all(ClearedData,
                        << <<5, packed[1]>>, <<30, packed[2]>>, <<30, packed[3]>> >>, 1)
    IN  bc7_code_qblock(head, swap.qblock, 4, [k \in 1..16 |-> 0])

\* store_data of the BC6H encoder: data[..4] as little-endian bytes.
bc6h_store_data(data) ==
    [b \in 1..16 |-> bits_value(SubSeq(data, 8 * b - 7, 8 * b))]

\* Quantized BC6H endpoints within 0 .. 2^bits - 1: two mixed sets and the
\* largest values.
Bc6hQeps(bits) ==
    { [i \in 1..24 |->
         IF seed = 2 THEN Pow2(bits) - 1
         ELSE (37 * i + 101 * seed + 3) % Pow2(bits)] : seed \in 0..2 }

CodeBc6h2p(part_id, qep, qblock) ==
    /\ fn_call = <<>>
    /\ fn_call' = [fn |-> "bc6h_code_2p", mode |-> 9, part_id |-> part_id,
                   qep |-> qep, qblock |-> qblock, aqep |-> <<0, 0>>,
                   aqblock |-> qblock, rotation |-> 3, swap |-> 0]
    /\ \E st \in { bc6h_code_2p(qep, qblock, part_id, 9) } :
           fn_result' = [ data |-> st.data, pos |-> st.pos, fits |-> st.fits,
                          dropped |-> st.dropped, block |-> bc6h_store_data(st.data) ]
    /\ UNCHANGED non_fn_vars

CodeBc6h1p(qep, qblock) ==
    /\ fn_call = <<>>
    /\ fn_call' = [fn |-> "bc6h_code_1p", mode |-> 10, part_id |-> 0,
                   qep |-> qep, qblock |-> qblock, aqep |-> <<0, 0>>,
                   aqblock |-> qblock, rotation |-> 3, swap |-> 0]
    /\ \E st \in { bc6h_code_1p(qep, qblock, 10) } :
           fn_result' = [ data |-> st.data, pos |-> st.pos, fits |-> st.fits,
                          dropped |-> st.dropped, block |-> bc6h_store_data(st.data) ]
    /\ UNCHANGED non_fn_vars

\* decode_block_bc6h (unsigned) on the sixteen bytes store_data wrote, into
\* sixteen pixels of three values, pitch 16.
DecodeBc6h(block) ==
    \E res \in { run(decode_block_bc6h(block, 16, FALSE), 1,
                     [k \in 1..64 |-> Unwritten],
                     [in_len |-> 16, pitch |-> 16, row_len |-> 12]) } :
        /\ fn_call # <<>>
        /\ fn_call.fn \in {"bc6h_code_2p", "bc6h_code_1p"}
        /\ fn_result.block = block
        /\ dec_pc = "idle"
        /\ dec_call' = [ decoder |-> "bc6h", compressed_block |-> block,
                         destination_pitch |-> 16, out_len |-> 64,
                         is_signed |-> FALSE ]
        /\ decompressed_block' = res.out
        /\ dec_fault' = res.fault
        /\ dec_pc' = IF res.fault = "" THEN "returned" ELSE "panic"
        /\ UNCHANGED non_decode_vars

\* decode_block_bc7 on the sixteen bytes store_data wrote, into sixteen
\* pixels of pitch 16.  The block is the one the code function left in
\* fn_result.
DecodeBc7(block) ==
    \E res \in { run(decode_block_bc7(block, 16), 1,
                     [k \in 1..64 |-> Unwritten],
                     [in_len |-> 16, pitch |-> 16, row_len |-> 16]) } :
        /\ fn_call # <<>>
        /\ fn_call.fn \in {"bc7_code_mode01237", "bc7_code_mode45", "bc7_code_mode6"}
        /\ fn_result.block = block
        /\ dec_pc = "idle"
        /\ dec_call' = [ decoder |-> "bc7", compressed_block |-> block,
                         destination_pitch |-> 16, out_len |-> 64,
                         is_signed |-> FALSE ]
        /\ decompressed_block' = res.out
        /\ dec_fault' = res.fault
        /\ dec_pc' = IF res.fault = "" THEN "returned" ELSE "panic"
        /\ UNCHANGED non_decode_vars

\* The sixteen bytes each code function emits for its inputs.
emitted_mode01237(mode, part_id, qep, qblock) ==
    bc7_store_data(bc7_code_mode01237(qep, qblock, part_id, mode).data)

emitted_mode45(mode, qep, qblock, aqep, aqblock, rotation, swap) ==
    bc7_store_data(bc7_code_mode45([qep |-> SubSeq(qep, 1, 8), qblock |-> qblock,
                                    aqep |-> aqep, aqblock |-> aqblock,
                                    rotation |-> rotation, swap |-> swap], mode).data)

emitted_mode6(qep, qblock) == bc7_store_data(bc7_code_mode6(qep, qblock).data)

NextBc7Code ==
    \/ \E part \in 0..15 :
         \E qep \in Qeps(0), qblock \in QBlocks(3, part) :
           CodeMode01237(0, part + 64, qep, qblock)
    \/ \E part \in 0..63 :
         \E qep \in Qeps(2), qblock \in QBlocks(2, part) :
           CodeMode01237(2, part + 64, qep, qblock)
    \/ \E part \in 0..63 :
         \E qep \in Qeps(1), qblock \in QBlocks(3, part) :
           CodeMode01237(1, part, qep, qblock)
    \/ \E mode \in {3, 7}, part \in 0..63 :
         \E qep \in Qeps(mode), qblock \in QBlocks(2, part) :
           CodeMode01237(mode, part, qep, qblock)
    \/ \E rotation \in 0..3, swap \in 0..1, qep \in Qeps(4), aqep \in {<<63, 5>>, <<20, 41>>} :
         \E qblock \in QBlocks(IF swap = 1 THEN 3 ELSE 2, rotation),
            aqblock \in QBlocks(IF swap = 1 THEN 2 ELSE 3, rotation + 1) :
           CodeMode45(4, qep, qblock, aqep, aqblock, rotation, swap)
    \/ \E rotation \in 0..3, qep \in Qeps(5), aqep \in {<<255, 5>>, <<20, 141>>} :
         \E qblock \in QBlocks(2, rotation), aqblock \in QBlocks(2, rotation + 1) :
           CodeMode45(5, qep, qblock, aqep, aqblock, rotation, 0)
    \/ \E qep \in Qeps(6), qblock \in QBlocks(4, 0) \cup QBlocks(4, 3) :
           CodeMode6(qep, qblock)
    \/ \E part \in 0..15 :
         \E qep \in Qeps(0), qblock \in QBlocks(3, part) :
           \E block \in { emitted_mode01237(0, part + 64, qep, qblock) } :
             DecodeBc7(block)
    \/ \E part \in 0..63 :
         \E qep \in Qeps(2), qblock \in QBlocks(2, part) :
           \E block \in { emitted_mode01237(2, part + 64, qep, qblock) } :
             DecodeBc7(block)
    \/ \E mode \in {1, 3, 7}, part \in 0..63 :
         \E qep \in Qeps(mode), qblock \in QBlocks(IF mode = 1 THEN 3 ELSE 2, part) :
           \E block \in { emitted_mode01237(mode, part, qep, qblock) } :
             DecodeBc7(block)
    \/ \E rotation \in 0..3, swap \in 0..1, qep \in Qeps(4), aqep \in {<<63, 5>>, <<20, 41>>} :
         \E qblock \in QBlocks(IF swap = 1 THEN 3 ELSE 2, rotation),
            aqblock \in QBlocks(IF swap = 1 THEN 2 ELSE 3, rotation + 1) :
           \E block \in { emitted_mode45(4, qep, qblock, aqep, aqblock, rotation, swap) } :
             DecodeBc7(block)
    \/ \E rotation \in 0..3, qep \in Qeps(5), aqep \in {<<255, 5>>, <<20, 141>>} :
         \E qblock \in QBlocks(2, rotation), aqblock \in QBlocks(2, rotation + 1) :
           \E block \in { emitted_mode45(5, qep, qblock, aqep, aqblock, rotation, 0) } :
             DecodeBc7(block)
    \/ \E qep \in Qeps(6), qblock \in QBlocks(4, 0) \cup QBlocks(4, 3) :
           \E block \in { emitted_mode6(qep, qblock) } :
             DecodeBc7(block)
    \/ \E part \in 0..31 :
         \E qep \in Bc6hQeps(6), qblock \in QBlocks(3, part) :
           CodeBc6h2p(part, qep, qblock)
    \/ \E qep \in Bc6hQeps(10), qblock \in QBlocks(4, 0) \cup QBlocks(4, 3) :
           CodeBc6h1p(qep, qblock)
    \/ \E part \in 0..31 :
         \E qep \in Bc6hQeps(6), qblock \in QBlocks(3, part) :
           \E block \in { bc6h_store_data(bc6h_code_2p(qep, qblock, part, 9).data) } :
             DecodeBc6h(block)
    \/ \E qep \in Bc6hQeps(10), qblock \in QBlocks(4, 0) \cup QBlocks(4, 3) :
           \E block \in { bc6h_store_data(bc6h_code_1p(qep, qblock, 10).data) } :
             DecodeBc6h(block)

SpecBc7Code == InitDecode /\ [][NextBc7Code]_vars

Bc7Emitted ==
    /\ fn_call # <<>>
    /\ fn_call.fn \in {"bc7_code_mode01237", "bc7_code_mode45", "bc7_code_mode6"}

Bc7EmittedDecoded == Bc7Emitted /\ dec_pc \in {"returned", "panic"}

\* The pixel k (0..15) the encoder's candidate stands for: the palette
\* entries of the endpoints and selectors as they were given to the code
\* function, before any swap.
CandidatePixel(k) ==
    LET mode == fn_call.mode
        bits == IF mode \in {0, 1} THEN 3 ELSE IF mode = 6 THEN 4
                ELSE IF mode = 4 /\ fn_call.swap = 1 THEN 3 ELSE 2
        abits == IF mode = 4 /\ fn_call.swap = 0 THEN 3 ELSE 2
        aepbits == IF mode = 4 THEN 6 ELSE 8
        j == IF mode \in {0, 1, 2, 3, 7} THEN get_pattern(fn_call.part_id, k) ELSE 0
        colour(c) == palette_entry(ep_dequant(fn_call.qep[8 * j + c + 1], mode),
                                   ep_dequant(fn_call.qep[8 * j + 4 + c + 1], mode),
                                   bits, fn_call.qblock[k + 1])
        scalar == palette_entry(unpack_to_byte(fn_call.aqep[1], aepbits),
                                unpack_to_byte(fn_call.aqep[2], aepbits),
                                abits, fn_call.aqblock[k + 1])
    IN  IF mode \in {0, 1, 2, 3} THEN << colour(0), colour(1), colour(2), 255 >>
        ELSE IF mode \in {6, 7} THEN << colour(0), colour(1), colour(2), colour(3) >>
        ELSE [c \in 1..4 |->
                IF c - 1 = fn_call.rotation THEN scalar
                ELSE IF c = 4 THEN colour(fn_call.rotation)
                ELSE colour(c - 1)]

Bc6hEmitted ==
    /\ fn_call # <<>>
    /\ fn_call.fn \in {"bc6h_code_2p", "bc6h_code_1p"}

Bc6hEmittedDecoded == Bc6hEmitted /\ dec_pc \in {"returned", "panic"}

\* The three values of pixel k (0..15) in the decoded BC6H tile.
Bc6hDecodedPixel(k) ==
    SubSeq(decompressed_block, (k \div 4) * 16 + (k % 4) * 3 + 1,
           (k \div 4) * 16 + (k % 4) * 3 + 3)

\* The BC6H pixel k the encoder's candidate stands for: the palette entry
\* of the endpoints and selectors as they were given to the code function.
Bc6hCandidatePixel(k) ==
    LET mode == fn_call.mode
        bits0 == bc6h_ACTUAL_BITS_COUNT[1][mode + 1]
        weights == IF mode >= 10 THEN WEIGHT4 ELSE WEIGHT3
        j == IF mode >= 10 THEN 0 ELSE get_pattern(fn_call.part_id, k)
    IN  [c \in 1..3 |->
           finish_unquantize(
               interpolate(unquantize(fn_call.qep[8 * j + c], bits0, FALSE),
                           unquantize(fn_call.qep[8 * j + 4 + c], bits0, FALSE),
                           weights, fn_call.qblock[k + 1]),
               FALSE)]

\* The anchor selector of subset j (0..2) as the code function was given it.
AnchorSelector(j) ==
    fn_call.qblock[(IF j = 0 THEN 0 ELSE get_skips(fn_call.part_id)[j + 1]) + 1]

\* C24: anchor selectors lose no information.  In every BC6H and BC7 block
\* the encoder emits, each bit deleted for an anchor is clear when it is
\* deleted, and every pixel of the emitted block decodes to the palette
\* entry of the endpoints and selectors before the swap.
C24_AnchorSelectors ==
    /\ (Bc7Emitted \/ Bc6hEmitted) =>
          /\ \A n \in 1..Len(fn_result.dropped) : fn_result.dropped[n] = 0
          /\ \A n \in 129..160 : fn_result.data[n] = 0
    /\ Bc7EmittedDecoded =>
          /\ dec_pc = "returned"
          /\ \A k \in 0..15 : DecodedPixel(k) = CandidatePixel(k)
    /\ Bc6hEmittedDecoded =>
          /\ dec_pc = "returned"
          /\ \A k \in 0..15 : Bc6hDecodedPixel(k) = Bc6hCandidatePixel(k)

\* A BC7 block of three subsets whose three anchor selectors were all in the
\* upper half: two bits were deleted, and the block is decoded.
C24_Witness ==
    /\ Bc7EmittedDecoded
    /\ dec_pc = "returned"
    /\ fn_call.mode = 0
    /\ \A j \in 0..2 : AnchorSelector(j) >= 4
    /\ Len(fn_result.dropped) = 2
    /\ \E k \in 0..15 : DecodedPixel(k) # DecodedPixel(0)

\* A BC6H block of two regions whose anchors were both in the upper half.
C24_WitnessBc6h ==
    /\ Bc6hEmittedDecoded
    /\ dec_pc = "returned"
    /\ fn_call.fn = "bc6h_code_2p"
    /\ \A j \in 0..1 : AnchorSelector(j) >= 4
    /\ Len(fn_result.dropped) = 1
    /\ \E k \in 0..15 : Bc6hDecodedPixel(k) # Bc6hDecodedPixel(0)

\* Blocks of one subset whose first selector was in the upper half.
C24_WitnessSingle ==
    /\ Bc7EmittedDecoded
    /\ dec_pc = "returned"
    /\ fn_call.mode = 6
    /\ fn_call.qblock[1] >= 8
    /\ \E k \in 0..15 : fn_call.qblock[k + 1] < 8

\* C25: an emitted BC7 block is exactly 128 bits.  For every mode 0 to 7
\* every value given to put_bits fits its bit width, the bits written less
\* the deleted anchor bits are 128, and data[4] is zero, so that the sixteen
\* bytes stored are all the bits.
C25_BlockIs128Bits ==
    Bc7Emitted =>
        /\ fn_result.fits
        /\ fn_result.pos - Len(fn_result.dropped) <= 129
        /\ fn_result.pos - (IF fn_call.mode \in {0, 2} THEN 2
                            ELSE IF fn_call.mode \in {1, 3, 7} THEN 1 ELSE 0) = 128
        /\ \A n \in 129..160 : fn_result.data[n] = 0
        /\ \A b \in 1..16 : \A i \in 0..7 :
              (fn_result.block[b] \div Pow2(i)) % 2 = fn_result.data[8 * (b - 1) + i + 1]

\* A block of three subsets with the largest endpoints and selectors: 130
\* bits were written and two deleted.
C25_Witness ==
    /\ Bc7Emitted
    /\ fn_call.mode = 2
    /\ \A i \in 1..24 : fn_call.qep[i] = 31
    /\ \A k \in 1..16 : fn_call.qblock[k] = 3
    /\ fn_result.pos = 130
    /\ Len(fn_result.dropped) = 2
    /\ fn_result.fits

\* A block of mode 4 with both selector widths and the largest endpoints.
C25_WitnessMode4 ==
    /\ Bc7Emitted
    /\ fn_call.mode = 4
    /\ fn_call.swap = 1
    /\ fn_call.aqep[1] = 63
    /\ fn_result.pos = 128
    /\ fn_result.block[16] # 0

(***************************************************************************)
(* The command-line compressor (compressor/src/main.rs).  A string is the  *)
(* sequence of its characters.  main returns (exit code 0) or panics (exit *)
(* code 101); what the file system and the device do is chosen at each     *)
(* step.  fn_result holds the position of main and what it has so far.     *)
(***************************************************************************)
\* str::to_lowercase on the characters used here
to_lowercase(string) ==
    [k \in 1..Len(string) |->
        CASE string[k] = "B" -> "b"
          [] string[k] = "C" -> "c"
          [] string[k] = "H" -> "h"
          [] OTHER -> string[k]]

HelpFlag == <<"-", "-", "h", "e", "l", "p">>

\* The variant parse_args returns, or "None" with what it printed.
parse_args(args) ==
    IF Len(args) # 3 \/ \E k \in 1..Len(args) : args[k] = HelpFlag
    THEN [variant |-> "None", stdout |-> <<"help">>]
    ELSE LET name == to_lowercase(args[2])
             variant == CASE name = <<"b", "c", "1">> -> "BC1"
                          [] name = <<"b", "c", "2">> -> "BC2"
                          [] name = <<"b", "c", "3">> -> "BC3"
                          [] name = <<"b", "c", "4">> -> "BC4"
                          [] name = <<"b", "c", "5">> -> "BC5"
                          [] name = <<"b", "c", "6", "h">> -> "BC6H"
                          [] name = <<"b", "c", "7">> -> "BC7"
                          [] OTHER -> "None"
         IN  [variant |-> variant,
              stdout |-> IF variant = "None"
                         THEN <<"Error: Invalid compression variant", "help">>
                         ELSE <<>>]

\* The exit code of the process: 0 when main returns, 101 when it panics.
exit_code(panic) == IF panic = "" THEN 0 ELSE 101

\* main has ended, by returning or by the panic given.
cli_exit(panic, stdout) ==
    [pc |-> "exit", panic |-> panic, exit_code |-> exit_code(panic), stdout |-> stdout]

\* main up to the return on None (main.rs:20-24)
CliMain(args) ==
    /\ fn_call = <<>>
    /\ fn_call' = [fn |-> "main", args |-> args]
    /\ fn_result' = IF parse_args(args).variant = "None"
                    THEN cli_exit("", parse_args(args).stdout)
                    ELSE [pc |-> "create_resources", panic |-> "", exit_code |-> -1,
                          stdout |-> <<>>]
    /\ UNCHANGED non_fn_vars

CliRunning(pc) == fn_call # <<>> /\ fn_call.fn = "main" /\ fn_result.pc = pc

\* create_resources (main.rs:74-112)
CliCreateResources(adapter, device) ==
    /\ CliRunning("create_resources")
    /\ fn_result' =
          IF ~adapter THEN cli_exit("Failed to find an appropriate adapter", <<>>)
          ELSE IF ~device THEN cli_exit("Failed to create device", <<>>)
          ELSE [fn_result EXCEPT !.pc = "read_image", !.stdout = <<"Using backend">>]
    /\ UNCHANGED <<fn_call, non_fn_vars>>

\* read_image_and_create_texture (main.rs:114-175)
CliReadImage(file) ==
    /\ CliRunning("read_image")
    /\ fn_result' =
          CASE file = "missing" -> cli_exit("can't open input image", fn_result.stdout)
            [] file = "undecodable" -> cli_exit("can't decode image", fn_result.stdout)
            [] OTHER -> [fn_result EXCEPT !.pc = "compress"]
    /\ UNCHANGED <<fn_call, non_fn_vars>>

\* The blocks buffer, the task, compress and download_blocks_data; an error
\* of the device reaches error_handler, which panics (main.rs:387-402).
CliCompress(uncaptured_error) ==
    /\ CliRunning("compress")
    /\ fn_result' =
          IF uncaptured_error # ""
          THEN cli_exit(uncaptured_error, fn_result.stdout)
          ELSE [fn_result EXCEPT !.pc = "write_dds_file"]
    /\ UNCHANGED <<fn_call, non_fn_vars>>

\* write_dds_file (main.rs:305-333), then main returns.
CliWriteDds(written) ==
    /\ CliRunning("write_dds_file")
    /\ fn_result' = IF written
                    THEN cli_exit("", fn_result.stdout)
                    ELSE cli_exit("failed to create output file", fn_result.stdout)
    /\ UNCHANGED <<fn_call, non_fn_vars>>

\* argv: the program name and up to three arguments.
CliArgs ==
    LET Words == { <<"b", "c", "1">>, <<"B", "C", "7">>, <<"b", "c", "6", "H">>,
                   <<"b", "c", "9">>, HelpFlag, <<"a", ".", "p", "n", "g">> }
        Program == <<"c", "o", "m", "p", "r", "e", "s", "s", "o", "r">>
    IN  { <<Program>> } \cup { <<Program, a>> : a \in Words }
        \cup { <<Program, a, b>> : a \in Words, b \in Words }
        \cup { <<Program, a, b, c>> : a \in Words, b \in Words, c \in Words }

NextCli ==
    \/ \E args \in CliArgs : CliMain(args)
    \/ \E adapter \in BOOLEAN, device \in BOOLEAN : CliCreateResources(adapter, device)
    \/ \E file \in {"image", "missing", "undecodable"} : CliReadImage(file)
    \/ \E uncaptured_error \in {"", "wgpu [OutOfMemory] [error]",
                                  "wgpu [Validation] [error]"} :
          CliCompress(uncaptured_error)
    \/ \E written \in BOOLEAN : CliWriteDds(written)

SpecCli == InitDecode /\ [][NextCli]_vars

CliExited == CliRunning("exit")

\* The command line has the wrong number of arguments or names no variant.
ArgumentError ==
    \/ Len(fn_call.args) # 3
    \/ to_lowercase(fn_call.args[2]) \notin
            { <<"b", "c", "1">>, <<"b", "c", "2">>, <<"b", "c", "3">>,
              <<"b", "c", "4">>, <<"b", "c", "5">>, <<"b", "c", "6", "h">>,
              <<"b", "c", "7">> }

DecodeError == fn_result.panic \in {"can't open input image", "can't decode image"}

DeviceError ==
    fn_result.panic \in {"Failed to find an appropriate adapter", "Failed to create device",
                         "wgpu [OutOfMemory] [error]", "wgpu [Validation] [error]"}

\* C17: the command-line compressor exits with code 0 on success and with
\* a non-zero code on argument errors (wrong number of arguments or an
\* unknown variant name), on decode errors and on device errors.
C17_ExitCodes ==
    CliExited =>
        /\ (ArgumentError \/ DecodeError \/ DeviceError) => fn_result.exit_code # 0
        /\ (~ArgumentError /\ fn_result.panic = "") => fn_result.exit_code = 0

\* What remains of C17: decode and device errors exit with a non-zero code,
\* and a run that wrote the DDS file exits with 0.
ExitCodeOfPanics ==
    CliExited =>
        /\ (DecodeError \/ DeviceError) => fn_result.exit_code # 0
        /\ fn_result.panic = "" => fn_result.exit_code = 0

\* `compressor bc9 a.png`: the error and the help are printed, and main
\* returns: exit code 0.
UnknownVariantExitsZero ==
    /\ CliExited
    /\ Len(fn_call.args) = 3
    /\ fn_call.args[2] = <<"b", "c", "9">>
    /\ fn_result.stdout = <<"Error: Invalid compression variant", "help">>
    /\ fn_result.exit_code = 0

\* `compressor BC7 a.png` on an image that does not decode: exit code 101.
DecodeErrorExitsNonZero ==
    /\ CliExited
    /\ fn_call.args[2] = <<"B", "C", "7">>
    /\ fn_result.panic = "can't decode image"
    /\ fn_result.exit_code = 101

====
